---- MODULE Spec2Model ----
(***************************************************************************)
(* A model of the discovery / synthesis / execution / remediation pipeline *)
(* of the AI QA agent: one run of POST /api/full-scan                      *)
(* (backend/src/routes.ts) over ProjectScanner, EndpointExtractor,         *)
(* AuthDetector, TestGenerator, TestRunner, TestAnalyzer, SecurityTester   *)
(* and PerformanceTester.                                                  *)
(*                                                                         *)
(* Four more specifications share its definitions: PerfSpec, one run of    *)
(* POST /api/performance-test followed request by request; UrlSpec, one    *)
(* run of POST /api/full-scan-url with its temporary workspace;            *)
(* AnalyzeSpec, TestAnalyzer.analyze on the results of a run; and          *)
(* UnitSpec, single functions (extractFromFile,                            *)
(* discoverEndpointsFromOpenApi, testSQLInjection, createIssue,            *)
(* generateRecommendations, executeTestCode, testEndpointPerformance)      *)
(* applied to inputs of their own.                                         *)
(*                                                                         *)
(* The environment of a run (the project tree, the host, the live          *)
(* endpoint's network) is drawn in Init and stays fixed; the generative    *)
(* backend answers each call nondeterministically.                         *)
(*                                                                         *)
(* Text is modelled by what the code looks for in it: a probe body is the  *)
(* set of markers that String.includes finds in it, a path is its sequence *)
(* of tokens (separators and alphanumeric words).                          *)
(***************************************************************************)
EXTENDS Integers, Sequences, FiniteSets, TLC

VARIABLES
  env,          \* the environment of the run (fixed after Init)
  pc,           \* position of the request handler
  routeFiles,   \* routes.ts:278      const routeFiles = await scanner.scan()
  endpoints,    \* routes.ts:284      const endpoints = []
  authInfo,     \* routes.ts:294      const authInfo = await detector.detect()
  testsDir,     \* <project>/playwright-tests/generated: sequence of [name, code]
  tests,        \* routes.ts:299      the GeneratedTest list (file names)
  testFiles,    \* runner.runTests:   const testFiles = await this.findTestFiles()
  results,      \* runner.runTests:   const results: TestResult[] = []
  idx,          \* cursor of the loop the handler is in
  attempt,      \* analyzer.attemptFix: let attempt
  genCalls,     \* number of ollamaClient.analyzeFailure calls, per result
  execCount,    \* number of executions of each result's probe (runTestFile calls)
  fixedAt,      \* result indexes for which attemptFix returned {fixed: true}
  issues,       \* analyzer.analyze: const issues: Issue[] = []
  liveCtx,      \* owners of BrowserContexts that are open
  liveBrowser,  \* owners of Browsers that are open
  opened,       \* owners that have ever opened a context in this run
  token,        \* authToken of the engine that is running (SecurityTester / PerformanceTester)
  reqNo,        \* number of payload/batch requests the running engine has issued
  secIssues,    \* SecurityTester.testEndpoints: const issues: SecurityIssue[] = []
  vulnerableEndpoints, \* SecurityTester.testEndpoints: const vulnerableEndpoints = new Set()
  secRan,       \* did securityTester.testEndpoints return
  perfMetrics,  \* PerformanceTester.testEndpoints: const metrics: PerformanceMetric[] = []
  perfRan,      \* did performanceTester.testEndpoints return
  response,     \* what the handler answered: "none", "report", "error400", "error500"
  errorStage,   \* the stage whose exception reached the handler's catch
  logins,       \* the login requests issued by authenticate, in order
  secLog,       \* the payload attempts SecurityTester has made, per endpoint index
  inflight,     \* PerformanceTester's batch: the requests issued and not yet answered
  call,         \* a call of one function of the pipeline on its own: [fn, arg, done, ret]
  workspaceDir  \* routes.ts:429      the URL-mode workspace on disk: "none", "created", "removed"

vars == << env, pc, routeFiles, endpoints, authInfo, testsDir, tests, testFiles,
           results, idx, attempt, genCalls, execCount, fixedAt, issues, liveCtx,
           liveBrowser, opened, token, reqNo, secIssues, vulnerableEndpoints, secRan, perfMetrics,
           perfRan, response, errorStage, logins, secLog, inflight, call,
           workspaceDir >>

-----------------------------------------------------------------------------
(* Bounds of the model *)

\* route files in the project tree
MaxFiles == 2

\* the latest request of an engine that the network may fail alone
MaxFailAt == 2

\* lines of a source file given to extractFromFile on its own
MaxLines == 3

\* keys of the paths mapping of an interface document
MaxPaths == 2

\* endpoints in the body of a POST /api/performance-test request
MaxRoutes == 2

-----------------------------------------------------------------------------
(* Program constants *)

\* analyzer.ts:28  private maxRetries = 3
maxRetriesOffByOne == 3 + 1
maxRetries == 3

\* performanceTester.ts:30  private concurrentRequests = 20
concurrentRequests == 20

-----------------------------------------------------------------------------
(* The environment *)

Methods == {"GET", "POST"}

\* String.toLowerCase / String.toUpperCase on a verb
toLowerCase(m) == CASE m = "GET" -> "get" [] m = "POST" -> "post" [] OTHER -> m
toUpperCase(m) ==
  CASE m = "get" -> "GET" [] m = "post" -> "POST" [] m = "put" -> "PUT"
    [] m = "delete" -> "DELETE" [] m = "patch" -> "PATCH" [] m = "head" -> "HEAD"
    [] m = "options" -> "OPTIONS" [] OTHER -> m

PathItems == << "/", "items" >>
PathAuthLogin == << "/", "auth", "/", "login" >>

EpItems == [method |-> "GET", path |-> PathItems, authRequired |-> FALSE]
EpLogin == [method |-> "POST", path |-> PathAuthLogin, authRequired |-> TRUE]

\* The text of a source file is its sequence of lines, a line the sequence of
\* what the patterns of the extractor and of the detector can find in it:
\*   decl   <style>.<verb>('<path>'     on one line
\*   head   <style>.<verb>(             at the end of a line, the path on the next
\*   arg    '<path>', handler)          at the start of a line
\*   jwt    jwt.sign(
\*   text   anything else
Decl(style, verb, path) == [kind |-> "decl", style |-> style, verb |-> verb, path |-> path]
HeadTok(style, verb) == [kind |-> "head", style |-> style, verb |-> verb, path |-> << >>]
ArgTok(path) == [kind |-> "arg", style |-> "", verb |-> "", path |-> path]
JwtTok == [kind |-> "jwt", style |-> "", verb |-> "", path |-> << >>]
TextTok == [kind |-> "text", style |-> "", verb |-> "", path |-> << >>]

\* A candidate route file: whether fs.readFile succeeds on it, and its lines
FileItems == [readable |-> TRUE, lines |-> << << Decl("router", "get", PathItems) >> >>]
FileAuth == [readable |-> TRUE, lines |-> << << Decl("router", "post", PathAuthLogin) >> >>]
FileJwt == [readable |-> TRUE, lines |-> << << JwtTok >> >>]
FileUnreadable == [readable |-> FALSE, lines |-> << >>]
FileKinds == {FileItems, FileAuth, FileJwt, FileUnreadable}

SeqsUpTo(S, n) == UNION {[1..k -> S] : k \in 0..n}

Projects == SeqsUpTo(FileKinds, MaxFiles)

\* fs.readdir on the project root: it succeeds, or fails with this error code
RootStatus == {"ok", "ENOENT", "EACCES", "EIO"}

\* the host: "ok", a project directory that cannot be written, no browser to launch
Hosts == {"ok", "readonly", "nobrowser"}

\* the live endpoint's network: every request answered, none, or all but the
\* k-th payload/batch request of one engine
NetPatterns ==
  {[kind |-> "up", engine |-> "none", k |-> 0],
   [kind |-> "down", engine |-> "none", k |-> 0]}
  \cup [kind : {"one"}, engine : {"security", "performance"}, k : 1..MaxFailAt]

Envs ==
  [hasProjectPath : {TRUE}, root : {"ok"}, project : Projects, host : Hosts,
   net : NetPatterns]
  \cup [hasProjectPath : {TRUE}, root : RootStatus \ {"ok"}, project : {<< >>},
        host : Hosts, net : {[kind |-> "up", engine |-> "none", k |-> 0]}]
  \cup [hasProjectPath : {FALSE}, root : {"ok"}, project : {<< >>}, host : {"ok"},
        net : {[kind |-> "up", engine |-> "none", k |-> 0]}]

\* does the n-th payload/batch request of an engine fail on the network
RequestFails(engine, n) ==
  \/ env.net.kind = "down"
  \/ env.net.kind = "one" /\ env.net.engine = engine /\ env.net.k = n

\* a login request is a request of its own: it fails when the endpoint is down
LoginFails == env.net.kind = "down"

-----------------------------------------------------------------------------
(* Probe bodies *)

\* what the code looks for in a probe body with String.includes
Markers == {"@playwright/test", "test(", "test.describe", "request"}

\* TestGenerator.buildTestTemplate: the template holds all four
buildTestTemplate(endpoint, auth) ==
  [src |-> "template", markers |-> Markers]

\* what the generative backend may return
CodeFull == [src |-> "ai", markers |-> Markers]
CodeNoRequest == [src |-> "ai", markers |-> {"@playwright/test", "test("}]
CodeDescribeOnly == [src |-> "ai", markers |-> {"@playwright/test", "test.describe", "request"}]
CodeProse == [src |-> "ai", markers |-> {}]
Candidates == {CodeFull, CodeNoRequest, CodeDescribeOnly, CodeProse}

\* OllamaClient.generate: returns the completed text or throws
BackendThrows == [src |-> "throw", markers |-> {}]
BackendOutcomes == Candidates \cup {BackendThrows}

-----------------------------------------------------------------------------
\* AuthDetector.detect: const authInfo = { hasAuth: false }; a field that is
\* absent (undefined) is << >> for the route and "" for the others
NoAuth == [hasAuth |-> FALSE, loginRoute |-> << >>, loginMethod |-> "", tokenField |-> ""]

\* no function is being called on its own
NoCall == [fn |-> "none", arg |-> << >>, done |-> TRUE, ret |-> << >>]

\* no batch request in flight.  route: the endpoint index of the last batch,
\* issued: its requests, ok / bad: those of them still in flight that will be
\* answered / that will fail
NoBatch == [route |-> 0, issued |-> 0, ok |-> 0, bad |-> 0]

\* what every handler starts from
Fresh ==
  /\ routeFiles = << >>
  /\ testsDir = << >>
  /\ tests = << >>
  /\ testFiles = << >>
  /\ results = << >>
  /\ idx = 0
  /\ attempt = 0
  /\ genCalls = << >>
  /\ execCount = << >>
  /\ fixedAt = {}
  /\ issues = << >>
  /\ liveCtx = {}
  /\ liveBrowser = {}
  /\ opened = {}
  /\ token = FALSE
  /\ reqNo = 0
  /\ secIssues = << >>
  /\ vulnerableEndpoints = {}
  /\ secRan = FALSE
  /\ perfMetrics = << >>
  /\ perfRan = FALSE
  /\ response = "none"
  /\ errorStage = "none"
  /\ logins = << >>
  /\ secLog = << >>
  /\ inflight = NoBatch
  /\ workspaceDir = "none"

\* POST /api/full-scan: the request has arrived
Init ==
  /\ env \in Envs
  /\ pc = "start"
  /\ endpoints = << >>
  /\ authInfo = NoAuth
  /\ call = NoCall
  /\ Fresh

\* routes.ts:334-337  catch (error) { res.status(500).json(...) }
Throw(stage) ==
  /\ pc' = "done"
  /\ response' = "error500"
  /\ errorStage' = stage

-----------------------------------------------------------------------------
(* ProjectScanner (scanner.ts) *)

\* ProjectScanner.scanDirectory on the project root: fs.readdir fails with
\* `root` (or succeeds, "ok"); EACCES and ENOENT are swallowed, anything else
\* is rethrown.  The files of the project are those isRouteFile accepts.
scanDirectory(root, project) ==
  IF root = "ok" THEN [threw |-> FALSE, routeFiles |-> project]
  ELSE IF root \in {"EACCES", "ENOENT"} THEN [threw |-> FALSE, routeFiles |-> << >>]
  ELSE [threw |-> TRUE, routeFiles |-> << >>]

\* ProjectScanner.scan: wraps what scanDirectory throws in "Failed to scan project"
scan(root, project) == scanDirectory(root, project)

\* routes.ts:265-279: validation of the input, then step 1
Scan ==
  /\ pc = "start"
  /\ IF ~env.hasProjectPath
       THEN /\ pc' = "done"
            /\ response' = "error400"
            /\ UNCHANGED << routeFiles, idx, errorStage >>
       ELSE LET r == scan(env.root, env.project) IN
            IF r.threw
              THEN Throw("scan") /\ UNCHANGED << routeFiles, idx >>
              ELSE /\ routeFiles' = r.routeFiles
                   /\ idx' = 1
                   /\ pc' = IF Len(r.routeFiles) = 0 THEN "auth" ELSE "extract"
                   /\ UNCHANGED << response, errorStage >>
  /\ UNCHANGED << env, workspaceDir, call, inflight, logins, secLog, endpoints, authInfo, testsDir, tests, testFiles, results,
                  attempt, genCalls, execCount, fixedAt, issues, liveCtx,
                  liveBrowser, opened, token, reqNo, secIssues, vulnerableEndpoints, secRan,
                  perfMetrics, perfRan >>

-----------------------------------------------------------------------------
(* EndpointExtractor (endpointExtractor.ts) *)

\* the patterns of detectAuthMiddleware (/auth/, /jwt/, ...) tested on a line
AuthWords == {"auth", "jwt", "authenticate"}
hasAuthWord(line) ==
  \E i \in 1..Len(line) :
    \/ line[i].kind = "jwt"
    \/ \E j \in 1..Len(line[i].path) : line[i].path[j] \in AuthWords

\* EndpointExtractor.detectAuthMiddleware for an endpoint declared on line n
\* (1-based): the lines of index max(0, n - 5) .. min(lines.length, n + 5) - 1
detectAuthMiddleware(lines, n) ==
  LET startLine == IF n - 5 > 0 THEN n - 5 ELSE 0
      endLine == IF Len(lines) < n + 5 THEN Len(lines) ELSE n + 5
  IN \E i \in startLine..(endLine - 1) : hasAuthWord(lines[i + 1])

\* the matches of one pattern on a line, lines 40-50 and 57-67: every
\* occurrence, in the order of the line (while ... exec)
patternMatchesFirstOnly(line, style) ==
  LET all == SelectSeq(line, LAMBDA t : t.kind = "decl" /\ t.style = style)
  IN IF all = << >> THEN << >> ELSE << all[1] >>
patternMatches(line, style) ==
  SelectSeq(line, LAMBDA t : t.kind = "decl" /\ t.style = style)

\* one iteration of the loop over the lines: the router matches of the line,
\* then its app matches
lineMatches(lines, n) ==
  LET m == patternMatches(lines[n], "router") \o patternMatches(lines[n], "app")
  IN [i \in 1..Len(m) |->
        [method |-> toUpperCase(m[i].verb), path |-> m[i].path,
         authRequired |-> detectAuthMiddleware(lines, n)]]

RECURSIVE matchesFrom(_, _)
\* the loop over the lines, from line n
matchesFrom(lines, n) ==
  IF n > Len(lines) THEN << >>
  ELSE lineMatches(lines, n) \o matchesFrom(lines, n + 1)

\* EndpointExtractor.extractFromFile: fs.readFile inside the try; the catch
\* rethrows as "Failed to extract endpoints from <file>"
extractFromFile(file) ==
  IF file.readable
    THEN [threw |-> FALSE, endpoints |-> matchesFrom(file.lines, 1)]
    ELSE [threw |-> TRUE, endpoints |-> << >>]

\* routes.ts:285-288: one iteration of the loop over routeFiles
ExtractFromFile ==
  /\ pc = "extract"
  /\ idx \in 1..Len(routeFiles)
  /\ LET r == extractFromFile(routeFiles[idx]) IN
     IF r.threw
       THEN Throw("extract") /\ UNCHANGED << endpoints, idx >>
       ELSE /\ endpoints' = endpoints \o r.endpoints
            /\ idx' = idx + 1
            /\ pc' = IF idx = Len(routeFiles) THEN "auth" ELSE "extract"
            /\ UNCHANGED << response, errorStage >>
  /\ UNCHANGED << env, workspaceDir, call, inflight, logins, secLog, routeFiles, authInfo, testsDir, tests, testFiles, results,
                  attempt, genCalls, execCount, fixedAt, issues, liveCtx,
                  liveBrowser, opened, token, reqNo, secIssues, vulnerableEndpoints, secRan,
                  perfMetrics, perfRan >>

-----------------------------------------------------------------------------
(* AuthDetector (authDetector.ts) *)

RECURSIVE Flatten(_)
\* the content of a file as one text: String.match runs over all of it, and
\* the \s* of a pattern spans the end of a line
Flatten(lines) == IF lines = << >> THEN << >> ELSE Head(lines) \o Flatten(Tail(lines))

\* loginPatterns: a path with login, signin or auth in it
IsLoginPath(path) == \E j \in 1..Len(path) : path[j] \in {"login", "signin", "auth"}

\* the places of the text where one of the loginPatterns matches: a get or
\* post call of the style with a login path, on one line or with the path on
\* the next line
loginMatches(text, style) ==
  {i \in 1..Len(text) :
     /\ text[i].style = style
     /\ text[i].verb \in {"get", "post"}
     /\ \/ text[i].kind = "decl" /\ IsLoginPath(text[i].path)
        \/ /\ text[i].kind = "head"
           /\ i < Len(text)
           /\ text[i + 1].kind = "arg"
           /\ IsLoginPath(text[i + 1].path)}

Min(S) == CHOOSE x \in S : \A y \in S : x <= y

\* AuthDetector.analyzeFile, lines 75-111: the first match of the router
\* pattern, else of the app pattern, gives hasAuth, loginMethod and loginRoute;
\* a jwt.sign( call gives hasAuth and tokenField
analyzeFile(file) ==
  LET text == Flatten(file.lines)
      style == IF loginMatches(text, "router") # {} THEN "router" ELSE "app"
      found == loginMatches(text, style)
      i == Min(found)
      hasJwt == \E k \in 1..Len(text) : text[k].kind = "jwt"
  IN [hasAuth |-> found # {} \/ hasJwt,
      loginRoute |-> IF found = {} THEN << >>
                     ELSE IF text[i].kind = "decl" THEN text[i].path
                     ELSE text[i + 1].path,
      loginMethod |-> IF found = {} THEN "" ELSE toUpperCase(text[i].verb),
      tokenField |-> IF hasJwt THEN "token" ELSE ""]

\* Object.assign(authInfo, detected): the fields detected has replace those of
\* authInfo
assign(auth, detected) ==
  [hasAuth |-> detected.hasAuth,
   loginRoute |-> IF detected.loginRoute # << >> THEN detected.loginRoute ELSE auth.loginRoute,
   loginMethod |-> IF detected.loginMethod # "" THEN detected.loginMethod ELSE auth.loginMethod,
   tokenField |-> IF detected.tokenField # "" THEN detected.tokenField ELSE auth.tokenField]

RECURSIVE detectFrom(_, _)
\* AuthDetector.detect, the loop over routeFiles from index i: fs.readFile
\* (not caught in the loop), analyzeFile, and break at the first file with auth
detectFrom(files, i) ==
  IF i > Len(files) THEN [threw |-> FALSE, authInfo |-> NoAuth]
  ELSE IF ~files[i].readable THEN [threw |-> TRUE, authInfo |-> NoAuth]
  ELSE IF analyzeFile(files[i]).hasAuth
    THEN [threw |-> FALSE, authInfo |-> assign(NoAuth, analyzeFile(files[i]))]
    ELSE detectFrom(files, i + 1)

\* AuthDetector.detect: its own scan of the tree, then the loop.  The modelled
\* projects have no entry-point file and no manifest at their root, so
\* checkMainServerFile and checkDependencies find nothing to read.
detect(root, project) ==
  LET s == scan(root, project) IN
  IF s.threw THEN [threw |-> TRUE, authInfo |-> NoAuth]
  ELSE detectFrom(s.routeFiles, 1)

\* routes.ts:291-294
DetectAuth ==
  /\ pc = "auth"
  /\ LET r == detect(env.root, env.project) IN
     IF r.threw
       THEN Throw("auth") /\ UNCHANGED authInfo
       ELSE /\ authInfo' = r.authInfo
            /\ pc' = "genMkdir"
            /\ UNCHANGED << response, errorStage >>
  /\ UNCHANGED << env, workspaceDir, call, inflight, logins, secLog, routeFiles, endpoints, testsDir, tests, testFiles, results,
                  idx, attempt, genCalls, execCount, fixedAt, issues, liveCtx,
                  liveBrowser, opened, token, reqNo, secIssues, vulnerableEndpoints, secRan,
                  perfMetrics, perfRan >>

-----------------------------------------------------------------------------
(* TestGenerator (testGenerator.ts) *)

\* TestGenerator.mergeTestCode: the generated body replaces the template iff
\* it includes 'test(' and '@playwright/test'
mergeTestCodeImportOnly(template, aiCode) ==
  IF "@playwright/test" \in aiCode.markers THEN aiCode ELSE template
mergeTestCode(template, aiCode) ==
  IF "test(" \in aiCode.markers /\ "@playwright/test" \in aiCode.markers
    THEN aiCode
    ELSE template

\* TestGenerator.generateTestCode: template on a backend failure
generateTestCode(endpoint, auth, out) ==
  IF out.src = "throw"
    THEN buildTestTemplate(endpoint, auth)
    ELSE mergeTestCode(buildTestTemplate(endpoint, auth), out)

IsAlnum(tok) == tok \notin {"/", "-", ":", ".", "_"}

RECURSIVE Strip(_)
\* .replace(/^_+|_+$/g, ''): drop the leading and trailing underscores
Strip(s) ==
  IF s = << >> THEN s
  ELSE IF Head(s) = "_" THEN Strip(Tail(s))
  ELSE IF s[Len(s)] = "_" THEN Strip(SubSeq(s, 1, Len(s) - 1))
  ELSE s

\* TestGenerator.getTestFileName: `${method}_${sanitized}.test.ts`
getTestFileName(endpoint) ==
  << toLowerCase(endpoint.method), "_" >>
    \o Strip([i \in 1..Len(endpoint.path) |->
                IF IsAlnum(endpoint.path[i]) THEN endpoint.path[i] ELSE "_"])
    \o << ".test.ts" >>

DirNames(dir) == {dir[i].name : i \in 1..Len(dir)}

\* fs.writeFile(path, code): replaces the file's content, or creates the file
writeFile(dir, name, code) ==
  IF name \in DirNames(dir)
    THEN [i \in 1..Len(dir) |->
            IF dir[i].name = name THEN [name |-> name, code |-> code] ELSE dir[i]]
    ELSE Append(dir, [name |-> name, code |-> code])

\* fs.readFile(path) of a file of the directory
readFile(dir, name) ==
  dir[CHOOSE i \in 1..Len(dir) : dir[i].name = name].code

\* TestGenerator.generateTests, line 296: fs.mkdir(testsDir, {recursive: true})
\* is outside the per-endpoint try
GenerateMkdir ==
  /\ pc = "genMkdir"
  /\ IF env.host = "readonly"
       THEN Throw("generate") /\ UNCHANGED idx
       ELSE /\ idx' = 1
            /\ pc' = IF Len(endpoints) = 0 THEN "runFind" ELSE "gen"
            /\ UNCHANGED << response, errorStage >>
  /\ UNCHANGED << env, workspaceDir, call, inflight, logins, secLog, routeFiles, endpoints, authInfo, testsDir, tests, testFiles,
                  results, attempt, genCalls, execCount, fixedAt, issues, liveCtx,
                  liveBrowser, opened, token, reqNo, secIssues, vulnerableEndpoints, secRan,
                  perfMetrics, perfRan >>

\* TestGenerator.generateTests, lines 298-326: one iteration of the loop; call
\* keeps the generateTestCode call of the iteration (the backend's answer and
\* the code returned) until generateTests has returned
GenerateTest ==
  /\ pc = "gen"
  /\ idx \in 1..Len(endpoints)
  /\ \E out \in BackendOutcomes :
       LET endpoint == endpoints[idx]
           testCode == generateTestCode(endpoint, authInfo, out)
           testFile == getTestFileName(endpoint)
       IN /\ testsDir' = writeFile(testsDir, testFile, testCode)
          /\ tests' = Append(tests, testFile)
          /\ call' = [fn |-> "generateTestCode",
                      arg |-> [endpoint |-> endpoint, aiEnhanced |-> out],
                      done |-> TRUE, ret |-> testCode]
  /\ idx' = idx + 1
  /\ pc' = IF idx = Len(endpoints) THEN "runFind" ELSE "gen"
  /\ UNCHANGED << env, workspaceDir, inflight, logins, secLog, routeFiles, endpoints, authInfo, testFiles, results,
                  attempt, genCalls, execCount, fixedAt, issues, liveCtx,
                  liveBrowser, opened, token, reqNo, secIssues, vulnerableEndpoints, secRan,
                  perfMetrics, perfRan, response, errorStage >>

-----------------------------------------------------------------------------
(* TestRunner (runner.ts) *)

NextFailedOrPassed(res, i) == IF i < Len(res) THEN i + 1 ELSE 0
\* the first failed result after index i, 0 when there is none:
\* analyzer.analyze walks testResults.results.filter((r) => !r.passed)
NextFailed(res, i) ==
  IF \E j \in (i + 1)..Len(res) : ~res[j].passed
    THEN CHOOSE j \in (i + 1)..Len(res) :
           /\ ~res[j].passed
           /\ \A k \in (i + 1)..(j - 1) : res[k].passed
    ELSE 0

\* where the handler is once runTests has returned `res`: in analyze's loop
\* over the failed results, or past it
AfterRun(res) == IF NextFailed(res, 0) = 0 THEN "secAuth" ELSE "fixBegin"

\* TestRunner.findTestFiles: the *.test.ts files of the generated directory
findTestFiles(dir) == [i \in 1..Len(dir) |-> dir[i].name]

\* TestRunner.runTests, lines 46-59
RunFind ==
  /\ pc = "runFind"
  /\ testFiles' = findTestFiles(testsDir)
  /\ call' = NoCall
  /\ IF Len(testsDir) = 0
       THEN pc' = AfterRun(<< >>) /\ idx' = 0
       ELSE pc' = "runOpen" /\ idx' = 1
  /\ UNCHANGED << env, workspaceDir, inflight, logins, secLog, routeFiles, endpoints, authInfo, testsDir, tests, results,
                  attempt, genCalls, execCount, fixedAt, issues, liveCtx,
                  liveBrowser, opened, token, reqNo, secIssues, vulnerableEndpoints, secRan,
                  perfMetrics, perfRan, response, errorStage >>

\* the parameters of the function executeTestCode builds with new Function,
\* and the names its body declares with const before the probe's code
FunctionParams == {"request", "expect"}
BodyDeclares == {"test", "expect"}

\* TestRunner.executeTestCode: new Function(...) is a SyntaxError when a
\* parameter is declared again with const in the body; everything thrown is
\* caught and becomes {passed: false, error}
executeTestCode(code, netDown, expectationsHold) ==
  IF FunctionParams \cap BodyDeclares # {}
    THEN [passed |-> FALSE, error |-> "syntax"]
  ELSE IF netDown THEN [passed |-> FALSE, error |-> "network"]
  ELSE IF ~expectationsHold THEN [passed |-> FALSE, error |-> "assertion"]
  ELSE [passed |-> TRUE, error |-> ""]

\* runTestFile's catch: the TestResult of a probe whose run threw
failedResult(testFile, message) ==
  [testFile |-> testFile, passed |-> FALSE, error |-> message]

\* the runner's position after runTestFile returned the result of testFiles[i]:
\* runTests' loop goes on to the next file whatever the result
AfterResultStopAtFailure(res, i) ==
  IF i = Len(testFiles) \/ ~res[Len(res)].passed THEN AfterRun(res) ELSE "runOpen"
AfterResult(res, i) == IF i = Len(testFiles) THEN AfterRun(res) ELSE "runOpen"

\* TestRunner.runTestFile, lines 126-136: read the probe, launch the browser,
\* open the context.  A failure here goes to the catch and, with nothing
\* opened, through the finally.
RunTestFileOpen ==
  /\ pc = "runOpen"
  /\ idx \in 1..Len(testFiles)
  /\ \E readOk \in BOOLEAN :
       IF ~readOk \/ env.host = "nobrowser"
         THEN LET res == Append(results,
                           failedResult(testFiles[idx],
                                        IF ~readOk THEN "read" ELSE "launch"))
              IN /\ results' = res
                 /\ genCalls' = Append(genCalls, 0)
                 /\ execCount' = Append(execCount, 1)
                 /\ pc' = AfterResult(res, idx)
                 /\ idx' = IF idx = Len(testFiles) THEN NextFailed(res, 0) ELSE idx + 1
                 /\ UNCHANGED << liveCtx, liveBrowser, opened >>
         ELSE /\ liveBrowser' = liveBrowser \cup {"sandbox"}
              /\ liveCtx' = liveCtx \cup {"sandbox"}
              /\ opened' = opened \cup {"sandbox"}
              /\ pc' = "runExec"
              /\ UNCHANGED << results, genCalls, execCount, idx >>
  /\ UNCHANGED << env, workspaceDir, call, inflight, logins, secLog, routeFiles, endpoints, authInfo, testsDir, tests, testFiles,
                  attempt, fixedAt, issues, token, reqNo, secIssues, vulnerableEndpoints, secRan,
                  perfMetrics, perfRan, response, errorStage >>

\* runTestFile's finally: context.close() and browser.close(), on every path
closeAfterRunOnSuccess(live, owner, passed) ==
  IF passed THEN live \ {owner} ELSE live
closeAfterRun(live, owner, passed) == live \ {owner}

\* TestRunner.runTestFile, lines 138-166, and runTests' results.push
RunTestFileFinish ==
  /\ pc = "runExec"
  /\ \E expectationsHold \in BOOLEAN :
       LET testResult == executeTestCode(readFile(testsDir, testFiles[idx]),
                                         env.net.kind = "down", expectationsHold)
           res == Append(results,
                         [testFile |-> testFiles[idx], passed |-> testResult.passed,
                          error |-> testResult.error])
       IN /\ results' = res
          /\ liveCtx' = closeAfterRun(liveCtx, "sandbox", testResult.passed)
          /\ liveBrowser' = closeAfterRun(liveBrowser, "sandbox", testResult.passed)
          /\ pc' = AfterResult(res, idx)
          /\ idx' = IF idx = Len(testFiles) THEN NextFailed(res, 0) ELSE idx + 1
  /\ genCalls' = Append(genCalls, 0)
  /\ execCount' = Append(execCount, 1)
  /\ UNCHANGED << env, workspaceDir, call, inflight, logins, secLog, routeFiles, endpoints, authInfo, testsDir, tests, testFiles,
                  attempt, fixedAt, issues, opened, token, reqNo, secIssues, vulnerableEndpoints, secRan,
                  perfMetrics, perfRan, response, errorStage >>

-----------------------------------------------------------------------------
(* TestAnalyzer (analyzer.ts) *)

\* TestAnalyzer.isValidTestCode
isValidTestCode(code) ==
  /\ "@playwright/test" \in code.markers
  /\ ("test(" \in code.markers \/ "test.describe" \in code.markers)
  /\ "request" \in code.markers

\* An error text is the set of words that occur in it; String.includes is
\* case-sensitive, so "SQL" and "sql" are different words.
includes(error, word) == word \in error

\* TestAnalyzer.createIssue, lines 143-164: three tests in this order, each
\* overwriting what the one before it set
classify(error) ==
  LET security == includes(error, "SQL") \/ includes(error, "XSS")
                    \/ includes(error, "injection")
      performance == includes(error, "timeout") \/ includes(error, "slow")
                       \/ includes(error, "latency")
      critical == includes(error, "500") \/ includes(error, "crash")
                    \/ includes(error, "exception")
  IN IF critical THEN [severity |-> "critical", type |-> "error"]
     ELSE IF performance THEN [severity |-> "medium", type |-> "performance"]
     ELSE IF security THEN [severity |-> "high", type |-> "security"]
     ELSE [severity |-> "medium", type |-> "failure"]

\* the words of the error texts the runner records: none of them is one of
\* the words createIssue looks for
errorMessage(error) == {}

\* TestAnalyzer.createIssue
createIssue(testResult, reason) ==
  [testFile |-> testResult.testFile,
   severity |-> classify(errorMessage(testResult.error)).severity,
   type |-> classify(errorMessage(testResult.error)).type,
   message |-> testResult.error,
   suggestion |-> reason]

\* the analyzer's position after the failed result i has been dealt with
AfterFix(i) == IF NextFailed(results, i) = 0 THEN "secAuth" ELSE "fixBegin"

\* TestAnalyzer.attemptFix, lines 89-100: the early returns.  A probe file
\* that could not be read by the runner still cannot be read.
attemptFixEntry(testResult) ==
  IF testResult.error = "" THEN "No error message available"
  ELSE IF testResult.error = "read" THEN "Cannot read test file"
  ELSE "retry"

\* analyze's loop body up to the retry loop of attemptFix
AttemptFixBegin ==
  /\ pc = "fixBegin"
  /\ idx \in 1..Len(results)
  /\ LET entry == attemptFixEntry(results[idx]) IN
     IF entry = "retry"
       THEN /\ attempt' = 1
            /\ pc' = "fixTry"
            /\ UNCHANGED << issues, idx >>
       ELSE /\ issues' = Append(issues, createIssue(results[idx], entry))
            /\ pc' = AfterFix(idx)
            /\ idx' = NextFailed(results, idx)
            /\ UNCHANGED attempt
  /\ UNCHANGED << env, workspaceDir, call, inflight, logins, secLog, routeFiles, endpoints, authInfo, testsDir, tests, testFiles,
                  results, genCalls, execCount, fixedAt, liveCtx, liveBrowser,
                  opened, token, reqNo, secIssues, vulnerableEndpoints, secRan, perfMetrics, perfRan,
                  response, errorStage >>

\* TestAnalyzer.attemptFix, lines 103-134: one iteration of the retry loop on
\* the backend's outcome `out`: is the candidate written, is the probe fixed
\* (return {fixed: true}), is there another iteration
attemptFixStepNoReturn(att, out) ==
  [write |-> out.src # "throw",
   fixed |-> out.src # "throw" /\ isValidTestCode(out),
   again |-> att + 1 <= maxRetries]
attemptFixStepWriteAccepted(att, out) ==
  [write |-> out.src # "throw" /\ isValidTestCode(out),
   fixed |-> out.src # "throw" /\ isValidTestCode(out),
   again |-> ~(out.src # "throw" /\ isValidTestCode(out)) /\ att + 1 <= maxRetries]
attemptFixStep(att, out) ==
  [write |-> out.src # "throw",
   fixed |-> out.src # "throw" /\ isValidTestCode(out),
   again |-> ~(out.src # "throw" /\ isValidTestCode(out)) /\ att + 1 <= maxRetries]

\* one analyzeFailure call of attemptFix and what follows it; call keeps the
\* analyzeFailure call of the iteration (the probe and the backend's answer)
\* until analyze has returned
AttemptFixTry ==
  /\ pc = "fixTry"
  /\ \E out \in BackendOutcomes :
       LET step == attemptFixStep(attempt, out)
           nowFixed == IF step.fixed THEN fixedAt \cup {idx} ELSE fixedAt
       IN /\ genCalls' = [genCalls EXCEPT ![idx] = @ + 1]
          /\ call' = [fn |-> "analyzeFailure", arg |-> results[idx].testFile,
                      done |-> TRUE, ret |-> out]
          /\ testsDir' = IF step.write
                           THEN writeFile(testsDir, results[idx].testFile, out)
                           ELSE testsDir
          /\ fixedAt' = nowFixed
          /\ IF step.again
               THEN /\ attempt' = attempt + 1
                    /\ UNCHANGED << pc, idx, issues >>
               ELSE /\ issues' = IF idx \in nowFixed
                                   THEN issues
                                   ELSE Append(issues,
                                               createIssue(results[idx],
                                                           "Max retries exceeded"))
                    /\ pc' = AfterFix(idx)
                    /\ idx' = NextFailed(results, idx)
                    /\ attempt' = 0
  /\ UNCHANGED << env, workspaceDir, inflight, logins, secLog, routeFiles, endpoints, authInfo, tests, testFiles, results,
                  execCount, liveCtx, liveBrowser, opened, token, reqNo,
                  secIssues, vulnerableEndpoints, secRan, perfMetrics, perfRan, response, errorStage >>

-----------------------------------------------------------------------------
(* The live endpoint *)

\* What the target answers to a request of a payload family on a route: the
\* status and what the classifiers look for in the body.  GET /items leaks a
\* database error on injection payloads; POST /auth/login rejects everything
\* with an error body, oversized bodies with 413.
serverResponse(endpoint, type) ==
  IF endpoint.path = PathItems
    THEN [status |-> 200,
          body |-> IF type = "sql_injection" THEN {"sql syntax"} ELSE {}]
    ELSE [status |-> IF type = "large_payload" THEN 413 ELSE 401,
          body |-> {"error"}]

-----------------------------------------------------------------------------
(* SecurityTester (securityTester.ts) *)

SqlPayloads ==
  << "' OR 1=1 --", "' OR '1'='1", "1' OR '1'='1", "admin'--", "' UNION SELECT NULL--" >>
XssPayloads ==
  << "<script>alert(1)</script>", "<img src=x onerror=alert(1)>",
     "javascript:alert(1)", "<svg onload=alert(1)>" >>
PathPayloads ==
  << "../../../etc/passwd", "..\\..\\..\\windows\\system32\\config\\sam",
     "....//....//....//etc/passwd" >>

Family(type, payloads) ==
  [i \in 1..Len(payloads) |-> [type |-> type, payload |-> payloads[i]]]

\* testLargePayload: data: 'x'.repeat(100000)
largePayloadChars == 100000

\* testLargePayload and testNegativeValues, past their early return
bodyAttempts ==
  << [type |-> "large_payload", payload |-> "Large payload (100KB)",
      chars |-> largePayloadChars],
     [type |-> "negative_value", payload |-> "negative"] >>

\* the requests SecurityTester.testEndpoints makes for one endpoint, in order:
\* testSQLInjection, testXSS, testPathTraversal, then testLargePayload and
\* testNegativeValues (which return [] at once for GET and DELETE), then
\* testUnauthorizedAccess if endpoint.authRequired
attemptsForAnyMethod(endpoint) ==
  Family("sql_injection", SqlPayloads)
    \o Family("xss", XssPayloads)
    \o Family("path_traversal", PathPayloads)
    \o bodyAttempts
    \o (IF endpoint.authRequired
          THEN << [type |-> "unauthorized", payload |-> "No authentication token"] >>
          ELSE << >>)
attemptsFor(endpoint) ==
  Family("sql_injection", SqlPayloads)
    \o Family("xss", XssPayloads)
    \o Family("path_traversal", PathPayloads)
    \o (IF endpoint.method \in {"GET", "DELETE"} THEN << >> ELSE bodyAttempts)
    \o (IF endpoint.authRequired
          THEN << [type |-> "unauthorized", payload |-> "No authentication token"] >>
          ELSE << >>)

\* detectSQLInjectionVulnerability: sqlErrorPatterns (/sql syntax/i, /mysql/i,
\* /postgresql/i, /sqlite/i, /ora-\d+/i, /sqlstate/i, /syntax error.*sql/i);
\* a body is the set of the things the classifiers find in it
sqlErrorPatterns ==
  {"sql syntax", "mysql", "postgresql", "sqlite", "ora-", "sqlstate", "syntax error sql"}

\* SecurityTester.detectSQLInjectionVulnerability
detectSQLInjectionAnyStatus(body, status) == body \cap sqlErrorPatterns # {}
detectSQLInjectionVulnerability(body, status) ==
  IF status = 200 THEN body \cap sqlErrorPatterns # {}
  ELSE IF status = 500 THEN body \cap sqlErrorPatterns # {}
  ELSE FALSE

\* the isVulnerable of each test* method
isVulnerable(type, r) ==
  CASE type = "sql_injection" -> detectSQLInjectionVulnerability(r.body, r.status)
    [] type = "xss" -> "payload" \in r.body /\ "&lt;script&gt;" \notin r.body
    [] type = "path_traversal" -> "root:" \in r.body \/ "[boot loader]" \in r.body
    [] type = "large_payload" -> r.status = 500 \/ r.status = 413
    [] type = "negative_value" -> r.status < 400 /\ "error" \notin r.body
    [] type = "unauthorized" -> r.status < 400

\* the severity each test* method gives a vulnerable finding
vulnerableSeverity(type) ==
  CASE type \in {"sql_injection", "xss"} -> "high"
    [] type \in {"path_traversal", "unauthorized"} -> "critical"
    [] OTHER -> "medium"

\* the SecurityIssue pushed for an attempt that was answered with r
issueFor(endpoint, att, r) ==
  LET v == isVulnerable(att.type, r)
  IN [endpoint |-> endpoint.path, method |-> endpoint.method, type |-> att.type,
      payload |-> att.payload, status |-> r.status, vulnerable |-> v,
      severity |-> IF v THEN vulnerableSeverity(att.type) ELSE "low"]

\* the SecurityIssue one answered attempt pushes
securityIssue(endpoint, att) == issueFor(endpoint, att, serverResponse(endpoint, att.type))

RECURSIVE testFamilies(_, _, _, _)
\* the issues of the attempts i.. of an endpoint, the first of which is the
\* engine's request number base + 1: an attempt whose request throws is caught
\* inside its test* method and leaves no issue
testFamilies(endpoint, atts, i, base) ==
  IF i > Len(atts) THEN << >>
  ELSE (IF RequestFails("security", base + i)
          THEN << >>
          ELSE << securityIssue(endpoint, atts[i]) >>)
       \o testFamilies(endpoint, atts, i + 1, base)

\* testEndpoints adds an endpoint to vulnerableEndpoints after testSQLInjection,
\* testXSS and testPathTraversal only
addsToVulnerable(issue) ==
  /\ issue.vulnerable
  /\ issue.type \in {"sql_injection", "xss", "path_traversal"}

\* SecurityTester.authenticate / PerformanceTester.authenticate: launch,
\* newContext, the login request, and the two close() calls after it inside
\* the try; the catch swallows what is thrown.  leaked: the context and browser
\* stay open; token: authToken was set.
authenticate(host, loginFails) ==
  IF host = "nobrowser" THEN [opens |-> FALSE, leaked |-> FALSE, token |-> FALSE]
  ELSE IF loginFails THEN [opens |-> TRUE, leaked |-> TRUE, token |-> FALSE]
  ELSE [opens |-> TRUE, leaked |-> FALSE, token |-> TRUE]

PathApiLogin == << "/", "api", "/", "login" >>

\* authenticate, the login request: authInfo.loginRoute || '/api/login',
\* authInfo.loginMethod || 'POST', authInfo.tokenField || 'token'
loginRequest(engine, auth) ==
  [engine |-> engine,
   route |-> IF auth.loginRoute # << >> THEN auth.loginRoute ELSE PathApiLogin,
   method |-> IF auth.loginMethod # "" THEN auth.loginMethod ELSE "POST",
   tokenField |-> IF auth.tokenField # "" THEN auth.tokenField ELSE "token"]

\* testEndpoints, lines 254-257 (both engines)
needsLogin(auth) == auth.hasAuth /\ auth.loginRoute # << >>

\* SecurityTester.testEndpoints up to the end of authenticate
SecAuthenticate ==
  /\ pc = "secAuth"
  /\ IF needsLogin(authInfo)
       THEN LET a == authenticate(env.host, LoginFails) IN
            /\ token' = a.token
            /\ logins' = IF a.opens
                           THEN Append(logins, loginRequest("security", authInfo))
                           ELSE logins
            /\ opened' = IF a.opens THEN opened \cup {"secLogin"} ELSE opened
            /\ liveCtx' = IF a.leaked THEN liveCtx \cup {"secLogin"} ELSE liveCtx
            /\ liveBrowser' = IF a.leaked THEN liveBrowser \cup {"secLogin"} ELSE liveBrowser
       ELSE /\ token' = FALSE
            /\ UNCHANGED << opened, liveCtx, liveBrowser, logins >>
  /\ reqNo' = 0
  /\ call' = NoCall
  /\ pc' = "secOpen"
  /\ UNCHANGED << env, workspaceDir, inflight, secLog, routeFiles, endpoints, authInfo, testsDir, tests, testFiles,
                  results, idx, attempt, genCalls, execCount, fixedAt, issues,
                  secIssues, vulnerableEndpoints, secRan, perfMetrics, perfRan,
                  response, errorStage >>

\* SecurityTester.testEndpoints, lines 262-265: launch and newContext
SecOpen ==
  /\ pc = "secOpen"
  /\ IF env.host = "nobrowser"
       THEN Throw("security") /\ UNCHANGED << liveCtx, liveBrowser, opened, idx >>
       ELSE /\ liveBrowser' = liveBrowser \cup {"security"}
            /\ liveCtx' = liveCtx \cup {"security"}
            /\ opened' = opened \cup {"security"}
            /\ idx' = 1
            /\ pc' = IF Len(endpoints) = 0 THEN "secClose" ELSE "secTest"
            /\ UNCHANGED << response, errorStage >>
  /\ UNCHANGED << env, workspaceDir, call, inflight, logins, secLog, routeFiles, endpoints, authInfo, testsDir, tests, testFiles,
                  results, attempt, genCalls, execCount, fixedAt, issues, token,
                  reqNo, secIssues, vulnerableEndpoints, secRan, perfMetrics,
                  perfRan >>

\* SecurityTester.testEndpoints, lines 267-312: one iteration of the loop
SecTestEndpoint ==
  /\ pc = "secTest"
  /\ idx \in 1..Len(endpoints)
  /\ LET endpoint == endpoints[idx]
         atts == attemptsFor(endpoint)
         found == testFamilies(endpoint, atts, 1, reqNo)
     IN /\ secIssues' = secIssues \o found
        /\ vulnerableEndpoints' =
             IF \E i \in 1..Len(found) : addsToVulnerable(found[i])
               THEN vulnerableEndpoints \cup {<< endpoint.method, endpoint.path >>}
               ELSE vulnerableEndpoints
        /\ reqNo' = reqNo + Len(atts)
        /\ secLog' = Append(secLog, atts)
  /\ idx' = idx + 1
  /\ pc' = IF idx = Len(endpoints) THEN "secClose" ELSE "secTest"
  /\ UNCHANGED << env, workspaceDir, call, inflight, logins, routeFiles, endpoints, authInfo, testsDir, tests, testFiles,
                  results, attempt, genCalls, execCount, fixedAt, issues, liveCtx,
                  liveBrowser, opened, token, secRan, perfMetrics, perfRan,
                  response, errorStage >>

\* SecurityTester.testEndpoints, lines 314-322: the return and the finally
SecClose ==
  /\ pc = "secClose"
  /\ liveCtx' = liveCtx \ {"security"}
  /\ liveBrowser' = liveBrowser \ {"security"}
  /\ secRan' = TRUE
  /\ pc' = "perfAuth"
  /\ UNCHANGED << env, workspaceDir, call, inflight, logins, secLog, routeFiles, endpoints, authInfo, testsDir, tests, testFiles,
                  results, idx, attempt, genCalls, execCount, fixedAt, issues,
                  opened, token, reqNo, secIssues, vulnerableEndpoints,
                  perfMetrics, perfRan, response, errorStage >>

-----------------------------------------------------------------------------
(* PerformanceTester (performanceTester.ts) *)

\* PerformanceTester.testEndpoints up to the end of authenticate
PerfAuthenticate ==
  /\ pc = "perfAuth"
  /\ IF needsLogin(authInfo)
       THEN LET a == authenticate(env.host, LoginFails) IN
            /\ token' = a.token
            /\ logins' = IF a.opens
                           THEN Append(logins, loginRequest("performance", authInfo))
                           ELSE logins
            /\ opened' = IF a.opens THEN opened \cup {"perfLogin"} ELSE opened
            /\ liveCtx' = IF a.leaked THEN liveCtx \cup {"perfLogin"} ELSE liveCtx
            /\ liveBrowser' = IF a.leaked THEN liveBrowser \cup {"perfLogin"} ELSE liveBrowser
       ELSE /\ token' = FALSE
            /\ UNCHANGED << opened, liveCtx, liveBrowser, logins >>
  /\ reqNo' = 0
  /\ pc' = "perfOpen"
  /\ UNCHANGED << env, workspaceDir, call, inflight, secLog, routeFiles, endpoints, authInfo, testsDir, tests, testFiles,
                  results, idx, attempt, genCalls, execCount, fixedAt, issues,
                  secIssues, vulnerableEndpoints, secRan, perfMetrics, perfRan,
                  response, errorStage >>

\* PerformanceTester.testEndpoints, lines 56-59: launch and newContext
PerfOpen ==
  /\ pc = "perfOpen"
  /\ IF env.host = "nobrowser"
       THEN Throw("performance") /\ UNCHANGED << liveCtx, liveBrowser, opened, idx >>
       ELSE /\ liveBrowser' = liveBrowser \cup {"performance"}
            /\ liveCtx' = liveCtx \cup {"performance"}
            /\ opened' = opened \cup {"performance"}
            /\ idx' = 1
            /\ pc' = IF Len(endpoints) = 0 THEN "perfClose" ELSE "perfTest"
            /\ UNCHANGED << response, errorStage >>
  /\ UNCHANGED << env, workspaceDir, call, inflight, logins, secLog, routeFiles, endpoints, authInfo, testsDir, tests, testFiles,
                  results, attempt, genCalls, execCount, fixedAt, issues, token,
                  reqNo, secIssues, vulnerableEndpoints, secRan, perfMetrics,
                  perfRan >>

\* PerformanceTester.testEndpointPerformance, lines 100-104: the batch of
\* concurrentRequests makeRequest calls, whose first is the engine's request
\* number base + 1, joined by Promise.all: it rejects when one of them rejects
\* (makeRequest catches nothing)
batchRejects(base) ==
  \E n \in 1..concurrentRequests : RequestFails("performance", base + n)

\* PerformanceTester.testEndpoints, lines 61-72: one iteration of the loop;
\* what testEndpointPerformance throws leaves through the finally (lines 82-85)
PerfTestEndpoint ==
  /\ pc = "perfTest"
  /\ idx \in 1..Len(endpoints)
  /\ reqNo' = reqNo + concurrentRequests
  /\ IF batchRejects(reqNo)
       THEN /\ liveCtx' = liveCtx \ {"performance"}
            /\ liveBrowser' = liveBrowser \ {"performance"}
            /\ Throw("performance")
            /\ UNCHANGED << perfMetrics, idx >>
       ELSE /\ perfMetrics' = Append(perfMetrics,
                                     [endpoint |-> endpoints[idx].path,
                                      method |-> endpoints[idx].method,
                                      requests |-> concurrentRequests])
            /\ idx' = idx + 1
            /\ pc' = IF idx = Len(endpoints) THEN "perfClose" ELSE "perfTest"
            /\ UNCHANGED << liveCtx, liveBrowser, response, errorStage >>
  /\ UNCHANGED << env, workspaceDir, call, inflight, logins, secLog, routeFiles, endpoints, authInfo, testsDir, tests, testFiles,
                  results, attempt, genCalls, execCount, fixedAt, issues, opened,
                  token, secIssues, vulnerableEndpoints, secRan, perfRan >>

\* PerformanceTester.testEndpoints, lines 74-85: the return and the finally
PerfClose ==
  /\ pc = "perfClose"
  /\ liveCtx' = liveCtx \ {"performance"}
  /\ liveBrowser' = liveBrowser \ {"performance"}
  /\ perfRan' = TRUE
  /\ pc' = "respond"
  /\ UNCHANGED << env, workspaceDir, call, inflight, logins, secLog, routeFiles, endpoints, authInfo, testsDir, tests, testFiles,
                  results, idx, attempt, genCalls, execCount, fixedAt, issues,
                  opened, token, reqNo, secIssues, vulnerableEndpoints, secRan,
                  perfMetrics, response, errorStage >>

-----------------------------------------------------------------------------
(* The orchestrator's answer (routes.ts) *)

\* routes.ts:321-333: res.json({success: true, summary})
Respond ==
  /\ pc = "respond"
  /\ response' = "report"
  /\ pc' = "done"
  /\ UNCHANGED << env, workspaceDir, call, inflight, logins, secLog, routeFiles, endpoints, authInfo, testsDir, tests, testFiles,
                  results, idx, attempt, genCalls, execCount, fixedAt, issues,
                  liveCtx, liveBrowser, opened, token, reqNo, secIssues,
                  vulnerableEndpoints, secRan, perfMetrics, perfRan, errorStage >>

Next ==
  \/ Scan
  \/ ExtractFromFile
  \/ DetectAuth
  \/ GenerateMkdir
  \/ GenerateTest
  \/ RunFind
  \/ RunTestFileOpen
  \/ RunTestFileFinish
  \/ AttemptFixBegin
  \/ AttemptFixTry
  \/ SecAuthenticate
  \/ SecOpen
  \/ SecTestEndpoint
  \/ SecClose
  \/ PerfAuthenticate
  \/ PerfOpen
  \/ PerfTestEndpoint
  \/ PerfClose
  \/ Respond

Spec == Init /\ [][Next]_vars

-----------------------------------------------------------------------------
(* POST /api/performance-test (routes.ts): PerformanceTester.testEndpoints on
   the endpoints and authInfo of the request body, followed request by request.
   The full scan above takes testEndpointPerformance in one step and keeps the
   route of each metric only. *)

\* authInfo of the request body: no auth; auth found with no login route (a
\* token-issuance call, or a library of the manifest, only); a login route
\* with its method; a login route alone
PerfAuthInfos ==
  {NoAuth,
   [hasAuth |-> TRUE, loginRoute |-> << >>, loginMethod |-> "", tokenField |-> "token"],
   [hasAuth |-> TRUE, loginRoute |-> PathAuthLogin, loginMethod |-> "POST", tokenField |-> ""],
   [hasAuth |-> TRUE, loginRoute |-> PathAuthLogin, loginMethod |-> "", tokenField |-> ""]}

PerfEnvs ==
  [hasProjectPath : {FALSE}, root : {"ok"}, project : {<< >>}, host : {"ok", "nobrowser"},
   net : {n \in NetPatterns : n.engine \in {"none", "performance"}}]

\* the request has arrived and its endpoints array has been validated
PerfInit ==
  /\ env \in PerfEnvs
  /\ pc = "perfAuth"
  /\ endpoints \in SeqsUpTo({EpItems, EpLogin}, MaxRoutes)
  /\ authInfo \in PerfAuthInfos
  /\ call = NoCall
  /\ Fresh

\* Date.now() - startTime once the batch is joined, in ms: the values that
\* put totalTime / concurrentRequests at 100 and on both sides of 200, 500, 1000
TotalTimes == {2000, 3980, 4000, 9980, 10000, 19980, 20000}

RECURSIVE Sum(_)
\* latencies.reduce((sum, l) => sum + l, 0)
Sum(s) == IF s = << >> THEN 0 ELSE Head(s) + Sum(Tail(s))

\* latencies[i] || 0, i counted from 0
at(s, i) == IF i + 1 \in 1..Len(s) THEN s[i + 1] ELSE 0

\* the status of a metric from its averageLatency
statusOfInclusive(averageLatency) ==
  IF averageLatency <= 200 THEN "fast"
  ELSE IF averageLatency <= 500 THEN "moderate"
  ELSE IF averageLatency <= 1000 THEN "slow"
  ELSE "very_slow"
statusOf(averageLatency) ==
  IF averageLatency < 200 THEN "fast"
  ELSE IF averageLatency < 500 THEN "moderate"
  ELSE IF averageLatency < 1000 THEN "slow"
  ELSE "very_slow"

\* PerformanceTester.testEndpointPerformance, lines 107-150: every response
\* adds totalTime / concurrentRequests to latencies (sorting them changes
\* nothing); the total times of the model are multiples of concurrentRequests
metricOf(endpoint, totalTime) ==
  LET latencies == [i \in 1..concurrentRequests |-> totalTime \div concurrentRequests]
      averageLatency == Sum(latencies) \div Len(latencies)
      p95Index == (Len(latencies) * 95) \div 100
      p99Index == (Len(latencies) * 99) \div 100
  IN [endpoint |-> endpoint.path,
      method |-> endpoint.method,
      averageLatency |-> averageLatency,
      minLatency |-> at(latencies, 0),
      maxLatency |-> at(latencies, Len(latencies) - 1),
      p95Latency |-> at(latencies, p95Index),
      p99Latency |-> at(latencies, p99Index),
      slowRequests |-> Len(SelectSeq(latencies, LAMBDA l : l > 500)),
      status |-> statusOf(averageLatency)]

\* the requests of a batch: concurrentRequests makeRequest calls, each of
\* which issues its request before it first suspends
batchSizeWithRetry == concurrentRequests + 1
batchSize == concurrentRequests

\* testEndpointPerformance, lines 100-102: the batch is issued, all of it,
\* before Promise.all is awaited
PerfBurst ==
  /\ pc = "perfTest"
  /\ idx \in 1..Len(endpoints)
  /\ LET bad == Cardinality({n \in 1..batchSize : RequestFails("performance", reqNo + n)})
     IN inflight' = [route |-> idx, issued |-> batchSize, ok |-> batchSize - bad,
                     bad |-> bad]
  /\ reqNo' = reqNo + batchSize
  /\ pc' = "perfWait"
  /\ UNCHANGED << env, workspaceDir, call, logins, secLog, routeFiles, endpoints, authInfo, testsDir,
                  tests, testFiles, results, idx, attempt, genCalls, execCount, fixedAt,
                  issues, liveCtx, liveBrowser, opened, token, secIssues,
                  vulnerableEndpoints, secRan, perfMetrics, perfRan, response,
                  errorStage >>

\* one request of the batch is over, in any order: it is answered, or it
\* fails, and then Promise.all rejects at once, testEndpointPerformance and
\* testEndpoints throw through the finally (the other requests stay in flight)
PerfResponse ==
  /\ pc = "perfWait"
  /\ \/ /\ inflight.ok > 0
        /\ inflight' = [inflight EXCEPT !.ok = @ - 1]
        /\ UNCHANGED << pc, liveCtx, liveBrowser, response, errorStage >>
     \/ /\ inflight.bad > 0
        /\ inflight' = [inflight EXCEPT !.bad = @ - 1]
        /\ liveCtx' = liveCtx \ {"performance"}
        /\ liveBrowser' = liveBrowser \ {"performance"}
        /\ Throw("performance")
  /\ UNCHANGED << env, workspaceDir, call, logins, secLog, routeFiles, endpoints, authInfo, testsDir,
                  tests, testFiles, results, idx, attempt, genCalls, execCount, fixedAt,
                  issues, opened, token, reqNo, secIssues, vulnerableEndpoints, secRan,
                  perfMetrics, perfRan >>

\* every request of the batch has been answered: Promise.all resolves, the
\* metric is computed and pushed (testEndpoints, lines 67-68)
PerfJoin ==
  /\ pc = "perfWait"
  /\ inflight.ok = 0
  /\ inflight.bad = 0
  /\ \E totalTime \in TotalTimes :
       perfMetrics' = Append(perfMetrics, metricOf(endpoints[idx], totalTime))
  /\ idx' = idx + 1
  /\ pc' = IF idx = Len(endpoints) THEN "perfClose" ELSE "perfTest"
  /\ UNCHANGED << env, workspaceDir, call, inflight, logins, secLog, routeFiles, endpoints, authInfo,
                  testsDir, tests, testFiles, results, attempt, genCalls, execCount,
                  fixedAt, issues, liveCtx, liveBrowser, opened, token, reqNo, secIssues,
                  vulnerableEndpoints, secRan, perfRan, response, errorStage >>

PerfNext ==
  \/ PerfAuthenticate
  \/ PerfOpen
  \/ PerfBurst
  \/ PerfResponse
  \/ PerfJoin
  \/ PerfClose
  \/ Respond

PerfSpec == PerfInit /\ [][PerfNext]_vars

-----------------------------------------------------------------------------
(* POST /api/full-scan-url (routes.ts) *)

\* the entries of the endpoints array of the body: method in any case or
\* absent (""), path, authRequired
BodyEndpoints ==
  {[method |-> "get", path |-> PathItems, authRequired |-> FALSE],
   [method |-> "", path |-> PathItems, authRequired |-> FALSE],
   [method |-> "POST", path |-> PathAuthLogin, authRequired |-> TRUE]}

\* routes.ts:422-427: (e.method || 'GET').toUpperCase(), !!e.authRequired
bodyEndpoint(e) ==
  [method |-> IF e.method = "" THEN "GET" ELSE toUpperCase(e.method),
   path |-> e.path, authRequired |-> e.authRequired]

\* the authInfo of the body: absent, or with a login route
BodyAuthInfos ==
  {NoAuth,
   [hasAuth |-> TRUE, loginRoute |-> PathAuthLogin, loginMethod |-> "POST", tokenField |-> ""]}

\* the request and the environment of a URL-mode run: baseURL is absent ("")
\* or a string; the endpoint is reachable or not; on a "readonly" host the
\* temporary directory cannot be written
UrlEnvs ==
  [hasProjectPath : {FALSE}, root : {"ok"}, project : {<< >>}, host : Hosts,
   net : {n \in NetPatterns : n.engine = "none"},
   baseURL : {"", "http://target"},
   bodyEndpoints : SeqsUpTo(BodyEndpoints, MaxRoutes),
   bodyAuthInfo : BodyAuthInfos]

\* the request has arrived: let workspaceDir = null
UrlInit ==
  /\ env \in UrlEnvs
  /\ pc = "urlStart"
  /\ endpoints = << >>
  /\ authInfo = NoAuth
  /\ call = NoCall
  /\ Fresh

\* routes.ts:380-431: the two validations (return 400 inside the try), the
\* normalisation of the body, and rm + mkdir of the workspace
UrlValidate ==
  /\ pc = "urlStart"
  /\ IF env.baseURL = "" \/ Len(env.bodyEndpoints) = 0
       THEN /\ response' = "error400"
            /\ pc' = "done"
            /\ UNCHANGED << endpoints, authInfo, workspaceDir, errorStage >>
       ELSE /\ endpoints' = [i \in 1..Len(env.bodyEndpoints) |->
                               bodyEndpoint(env.bodyEndpoints[i])]
            /\ authInfo' = env.bodyAuthInfo
            /\ IF env.host = "readonly"
                 THEN Throw("workspace") /\ UNCHANGED workspaceDir
                 ELSE /\ workspaceDir' = "created"
                      /\ pc' = "genMkdir"
                      /\ UNCHANGED << response, errorStage >>
  /\ UNCHANGED << env, call, inflight, logins, secLog, routeFiles, testsDir, tests,
                  testFiles, results, idx, attempt, genCalls, execCount, fixedAt,
                  issues, liveCtx, liveBrowser, opened, token, reqNo, secIssues,
                  vulnerableEndpoints, secRan, perfMetrics, perfRan >>

\* routes.ts:452-456: the finally, after res.json or the catch:
\* if (workspaceDir) await rm(workspaceDir, {recursive: true})
rmWorkspaceAfterReport(dir, answered) ==
  IF dir = "created" /\ answered = "report" THEN "removed" ELSE dir
rmWorkspace(dir, answered) == IF dir = "created" THEN "removed" ELSE dir

\* the handler leaves through its finally; the probe files are in
\* <workspaceDir>/playwright-tests/generated and go with it
UrlFinally ==
  /\ pc = "done"
  /\ workspaceDir' = rmWorkspace(workspaceDir, response)
  /\ testsDir' = IF workspaceDir' = "removed" THEN << >> ELSE testsDir
  /\ pc' = "exited"
  /\ UNCHANGED << env, call, inflight, logins, secLog, routeFiles, endpoints, authInfo,
                  tests, testFiles, results, idx, attempt, genCalls,
                  execCount, fixedAt, issues, liveCtx, liveBrowser, opened, token,
                  reqNo, secIssues, vulnerableEndpoints, secRan, perfMetrics, perfRan,
                  response, errorStage >>

UrlNext ==
  \/ UrlValidate
  \/ GenerateMkdir
  \/ GenerateTest
  \/ RunFind
  \/ RunTestFileOpen
  \/ RunTestFileFinish
  \/ AttemptFixBegin
  \/ AttemptFixTry
  \/ SecAuthenticate
  \/ SecOpen
  \/ SecTestEndpoint
  \/ SecClose
  \/ PerfAuthenticate
  \/ PerfOpen
  \/ PerfTestEndpoint
  \/ PerfClose
  \/ Respond
  \/ UrlFinally

UrlSpec == UrlInit /\ [][UrlNext]_vars

-----------------------------------------------------------------------------
(* The functions of the pipeline called on their own *)

\* every variable but call
handlerVars == << env, pc, routeFiles, endpoints, authInfo, testsDir, tests, testFiles,
                  results, idx, attempt, genCalls, execCount, fixedAt, issues, liveCtx,
                  liveBrowser, opened, token, reqNo, secIssues, vulnerableEndpoints,
                  secRan, perfMetrics, perfRan, response, errorStage, logins, secLog,
                  inflight, workspaceDir >>

\* the lines the source files are made of: one declaration, an app call and a
\* router call on one line, the same declaration twice on a line, no
\* declaration, a call whose path is on the next line, a token-issuance call
SourceLines ==
  {<< Decl("router", "get", PathItems) >>,
   << Decl("app", "post", PathAuthLogin), Decl("router", "get", PathItems) >>,
   << Decl("app", "get", PathItems), Decl("app", "get", PathItems) >>,
   << TextTok >>,
   << TextTok, HeadTok("router", "post") >>,
   << ArgTok(PathAuthLogin) >>,
   << JwtTok >>}

SourceFiles ==
  [readable : {TRUE}, lines : SeqsUpTo(SourceLines, MaxLines)] \cup {FileUnreadable}

\* openApiService.ts: const HTTP_METHODS
HTTP_METHODS == << "get", "post", "put", "delete", "patch", "head", "options" >>

\* An operation object by its security member: absent, [], a non-empty
\* array, or a value that is not an array
Op(key, security) == [key |-> key, security |-> security]

\* the path items of the documents: the members of each, in document order
DocItems ==
  {<< Op("get", "absent") >>,
   << Op("post", "nonempty") >>,
   << Op("parameters", "absent"), Op("get", "empty"), Op("delete", "nonempty"),
      Op("options", "absent") >>,
   << >>,
   << Op("patch", "nonempty"), Op("head", "notArray"), Op("put", "absent") >>}

\* the keys of the paths mapping: two paths and an extension member
DocKeys == {<< "/", "a" >>, << "/", "b" >>, << "x-meta" >>}

\* the paths mappings: the members in document order, no key twice
DocPaths ==
  {ps \in SeqsUpTo([path : DocKeys, item : DocItems], MaxPaths) :
     \A i, j \in 1..Len(ps) : i # j => ps[i].path # ps[j].path}

\* What axios.get(openApiUrl) gives: the request fails, or response.data is an
\* object, a string of JSON, a string that is not JSON (YAML); the paths member
\* is a mapping, absent, or a value that is not an object
Documents ==
  [fetch : {"object", "jsonText"}, paths : {"mapping"}, members : DocPaths]
  \cup [fetch : {"object", "jsonText"}, paths : {"absent", "notObject"}, members : {<< >>}]
  \cup [fetch : {"yamlText", "failed"}, paths : {"absent"}, members : {<< >>}]

\* path.startsWith('/')
startsWithSlash(path) == Len(path) >= 1 /\ path[1] = "/"

\* pathItem[method]: the member of that key, << >> when there is none
member(item, key) == SelectSeq(item, LAMBDA op : op.key = key)

\* Array.isArray(op.security) && op.security.length > 0
authRequiredAnyArray(op) == op.security \in {"empty", "nonempty"}
authRequiredOf(op) == op.security = "nonempty"

\* discoverEndpointsFromOpenApi, lines 180-193: the loop over HTTP_METHODS
\* for one member of paths
pathEndpoints(path, item) ==
  LET found == SelectSeq(HTTP_METHODS, LAMBDA m : member(item, m) # << >>)
  IN [i \in 1..Len(found) |->
        [method |-> toUpperCase(found[i]), path |-> path,
         authRequired |-> authRequiredOf(member(item, found[i])[1])]]

RECURSIVE docEndpoints(_, _)
\* discoverEndpointsFromOpenApi, lines 176-194: the loop over the members of
\* paths, from member i
docEndpoints(members, i) ==
  IF i > Len(members) THEN << >>
  ELSE (IF startsWithSlash(members[i].path)
          THEN pathEndpoints(members[i].path, members[i].item)
          ELSE << >>)
       \o docEndpoints(members, i + 1)

\* discoverEndpointsFromOpenApi
discoverEndpointsFromOpenApi(doc) ==
  IF doc.fetch = "failed" THEN [threw |-> TRUE, error |-> "fetch", endpoints |-> << >>]
  ELSE IF doc.fetch = "yamlText"
    THEN [threw |-> TRUE, error |-> "OpenAPI spec is not valid JSON", endpoints |-> << >>]
  ELSE IF doc.paths # "mapping"
    THEN [threw |-> TRUE, error |-> "Invalid OpenAPI spec", endpoints |-> << >>]
  ELSE [threw |-> FALSE, error |-> "", endpoints |-> docEndpoints(doc.members, 1)]

\* the answers of the live endpoint to an injection attempt: the status, and
\* what the classifiers find in the body
SqlResponses ==
  [status : {200, 201, 400, 401, 404, 500, 503},
   body : SUBSET {"sql syntax", "sqlstate", "mysql", "error"}]

SqlAttempts ==
  [endpoint : {EpItems},
   att : {Family("sql_injection", SqlPayloads)[i] : i \in 1..Len(SqlPayloads)},
   response : SqlResponses]

\* the words an error text may hold, and the error texts of at most MaxWords
\* words
MaxWords == 2
Words ==
  {"SQL", "sql", "XSS", "xss", "injection", "timeout", "slow", "latency",
   "500", "crash", "exception", "Expected"}
ErrorTexts == {e \in SUBSET Words : Cardinality(e) <= MaxWords}

\* the failed results createIssue is called on
FailedResults ==
  [testFile : {getTestFileName(EpItems)}, passed : {FALSE}, error : ErrorTexts]

\* the results of a run as generateRecommendations reads them: up to
\* MaxResults probes of any outcome and duration (in ms), and runs of
\* MaxBatch probes of one duration of which the first k failed
MaxResults == 2
MaxBatch == 10
Durations == {1000, 5000, 6000}
ProbeBatch(k, d) == [i \in 1..MaxBatch |-> [passed |-> i > k, duration |-> d]]
ProbeRuns ==
  SeqsUpTo([passed : BOOLEAN, duration : Durations], MaxResults)
    \cup {ProbeBatch(k, d) : k \in 0..MaxBatch, d \in Durations}

\* filter(...).length
Count(s, P(_)) == Cardinality({i \in 1..Len(s) : P(s[i])})

\* TestRunner.runTests, lines 84-94: the counts returned with the results
TestRunResults(probes) ==
  [results |-> probes,
   failed |-> Count(probes, LAMBDA r : ~r.passed),
   total |-> Len(probes)]

\* the issues analyze may hand over: at most one for each failed result
IssueKinds == {classify(e) : e \in ErrorTexts}
AnalyzedRuns ==
  {a \in [testResults : {TestRunResults(probes) : probes \in ProbeRuns},
          issues : SeqsUpTo(IssueKinds, MaxResults)] :
     Len(a.issues) <= a.testResults.failed}

\* r.duration > 5000
slowTestMs == 5000

\* TestAnalyzer.generateRecommendations: the recommendations pushed, in order
generateRecommendationsAverage(testResults, iss) ==
  LET durations == [i \in 1..Len(testResults.results) |->
                      testResults.results[i].duration]
  IN (IF Sum(durations) > slowTestMs * Len(durations)
        THEN << "performance" >> ELSE << >>)
     \o (IF Count(iss, LAMBDA i : i.type = "security") > 0
           THEN << "input-validation" >> ELSE << >>)
     \o (IF Count(iss, LAMBDA i : i.severity = "critical") > 0
           THEN << "crash-risk" >> ELSE << >>)
     \o (IF testResults.failed * 10 > testResults.total * 3
           THEN << "general-review" >> ELSE << >>)
generateRecommendations(testResults, iss) ==
  (IF Count(testResults.results, LAMBDA r : r.duration > slowTestMs) > 0
     THEN << "performance" >> ELSE << >>)
  \o (IF Count(iss, LAMBDA i : i.type = "security") > 0
        THEN << "input-validation" >> ELSE << >>)
  \o (IF Count(iss, LAMBDA i : i.severity = "critical") > 0
        THEN << "crash-risk" >> ELSE << >>)
  \o (IF testResults.failed * 10 > testResults.total * 3
        THEN << "general-review" >> ELSE << >>)

\* the probes executeTestCode is called on: the code of the probe file, and
\* what its body would meet at the live endpoint
ProbeExecutions ==
  [testCode : Candidates \cup {buildTestTemplate(EpItems, NoAuth)},
   netDown : BOOLEAN, expectationsHold : BOOLEAN]

\* makeRequest's own measurement (latency = Date.now() - startTime) for each
\* request of a batch, in ms: the first k requests took slowMs, the others
\* fastMs
fastMs == 100
slowMs == 600
OwnLatencies(k) == [i \in 1..concurrentRequests |-> IF i <= k THEN slowMs ELSE fastMs]

\* the batches testEndpointPerformance measures: what each request took and
\* what the whole batch took
Batches ==
  [endpoint : {EpItems},
   own : {OwnLatencies(k) : k \in 0..concurrentRequests},
   totalTime : TotalTimes]

Pending(fn, args) == [fn : {fn}, arg : args, done : {FALSE}, ret : {<< >>}]

UnitCalls ==
  Pending("extractFromFile", SourceFiles)
    \cup Pending("discoverEndpointsFromOpenApi", Documents)
    \cup Pending("testSQLInjection", SqlAttempts)
    \cup Pending("createIssue", FailedResults)
    \cup Pending("generateRecommendations", AnalyzedRuns)
    \cup Pending("executeTestCode", ProbeExecutions)
    \cup Pending("testEndpointPerformance", Batches)

\* no handler is running
UnitInit ==
  /\ call \in UnitCalls
  /\ env = [hasProjectPath |-> FALSE, root |-> "ok", project |-> << >>, host |-> "ok",
            net |-> [kind |-> "up", engine |-> "none", k |-> 0]]
  /\ pc = "idle"
  /\ endpoints = << >>
  /\ authInfo = NoAuth
  /\ Fresh

Returns(fn, value) ==
  /\ call.fn = fn
  /\ ~call.done
  /\ call' = [call EXCEPT !.done = TRUE, !.ret = value]
  /\ UNCHANGED handlerVars

\* extractor.extractFromFile(file)
CallExtractFromFile == Returns("extractFromFile", extractFromFile(call.arg))

\* discoverEndpointsFromOpenApi(openApiUrl)
CallDiscoverEndpoints ==
  Returns("discoverEndpointsFromOpenApi", discoverEndpointsFromOpenApi(call.arg))

\* SecurityTester.testSQLInjection, lines 388-411: one payload, answered
CallTestSQLInjection ==
  Returns("testSQLInjection", issueFor(call.arg.endpoint, call.arg.att, call.arg.response))

\* TestAnalyzer.createIssue on a failed result, its error text given as it is
CallCreateIssue ==
  Returns("createIssue",
          [testFile |-> call.arg.testFile,
           severity |-> classify(call.arg.error).severity,
           type |-> classify(call.arg.error).type,
           message |-> call.arg.error,
           suggestion |-> "Max retries exceeded"])

\* TestAnalyzer.generateRecommendations(testResults, issues)
CallGenerateRecommendations ==
  Returns("generateRecommendations",
          generateRecommendations(call.arg.testResults, call.arg.issues))

\* TestRunner.executeTestCode(testCode, request)
CallExecuteTestCode ==
  Returns("executeTestCode",
          executeTestCode(call.arg.testCode, call.arg.netDown,
                          call.arg.expectationsHold))

\* PerformanceTester.testEndpointPerformance once Promise.all has resolved:
\* the latency makeRequest returns with each response is not read
CallTestEndpointPerformance ==
  Returns("testEndpointPerformance", metricOf(call.arg.endpoint, call.arg.totalTime))

UnitNext ==
  \/ CallExtractFromFile
  \/ CallDiscoverEndpoints
  \/ CallTestSQLInjection
  \/ CallCreateIssue
  \/ CallGenerateRecommendations
  \/ CallExecuteTestCode
  \/ CallTestEndpointPerformance

UnitSpec == UnitInit /\ [][UnitNext]_vars

-----------------------------------------------------------------------------
(* TestAnalyzer.analyze on the results of a run *)

\* the probe files of the run handed to analyze
ProbeFiles ==
  << getTestFileName(EpItems), getTestFileName(EpLogin),
     getTestFileName([EpItems EXCEPT !.method = "DELETE"]) >>

\* a TestResult: passed, or failed with an error text or with none (error is
\* optional in TestResult)
Outcomes ==
  {[passed |-> TRUE, error |-> ""]}
    \cup [passed : {FALSE}, error : {"", "read", "syntax", "assertion"}]

\* the results runTests may return for the probe files
RunResults(files) ==
  {[i \in 1..Len(files) |->
      [testFile |-> files[i], passed |-> o[i].passed, error |-> o[i].error]] :
     o \in [1..Len(files) -> Outcomes]}

\* routes.ts:302  analyzer.analyze(testResults, emitLog) has been called
AnalyzeInit ==
  /\ call = NoCall
  /\ env = [hasProjectPath |-> TRUE, root |-> "ok", project |-> << >>, host |-> "ok",
            net |-> [kind |-> "up", engine |-> "none", k |-> 0]]
  /\ endpoints = << >>
  /\ authInfo = NoAuth
  /\ routeFiles = << >>
  /\ \E k \in 0..Len(ProbeFiles) : testFiles = SubSeq(ProbeFiles, 1, k)
  /\ tests = testFiles
  /\ testsDir = [i \in 1..Len(testFiles) |->
                  [name |-> testFiles[i], code |-> buildTestTemplate(EpItems, NoAuth)]]
  /\ results \in RunResults(testFiles)
  /\ genCalls = [i \in 1..Len(testFiles) |-> 0]
  /\ execCount = [i \in 1..Len(testFiles) |-> 1]
  /\ idx = NextFailed(results, 0)
  /\ pc = AfterRun(results)
  /\ attempt = 0
  /\ fixedAt = {}
  /\ issues = << >>
  /\ liveCtx = {}
  /\ liveBrowser = {}
  /\ opened = {"sandbox"}
  /\ token = FALSE
  /\ reqNo = 0
  /\ secIssues = << >>
  /\ vulnerableEndpoints = {}
  /\ secRan = FALSE
  /\ perfMetrics = << >>
  /\ perfRan = FALSE
  /\ response = "none"
  /\ errorStage = "none"
  /\ logins = << >>
  /\ secLog = << >>
  /\ inflight = NoBatch
  /\ workspaceDir = "none"

AnalyzeNext ==
  \/ AttemptFixBegin
  \/ AttemptFixTry

AnalyzeSpec == AnalyzeInit /\ [][AnalyzeNext]_vars

-----------------------------------------------------------------------------
(* Properties *)

\* analyzer.analyze has returned
AnalysisOver ==
  \/ pc \in {"secAuth", "secOpen", "secTest", "secClose", "perfAuth", "perfOpen",
             "perfTest", "perfClose", "respond"}
  \/ pc = "done" /\ (response = "report" \/ errorStage \in {"security", "performance"})

\* runner.runTests has returned
RunOver == pc \in {"fixBegin", "fixTry"} \/ AnalysisOver

\* attemptFix has returned for the result i
FixOver(i) == AnalysisOver \/ (pc \in {"fixBegin", "fixTry"} /\ i < idx)

IssuesOf(i) == {k \in 1..Len(issues) : issues[k].testFile = results[i].testFile}

\* C1: RemediationLoop makes at most 3 generation calls for a failed probe,
\* whatever the backend returns or throws, and a probe whose attempts are
\* exhausted without an accepted candidate has exactly one Issue once
\* attemptFix has returned for it.
C1_BoundedRemediation ==
  \A i \in 1..Len(results) :
    /\ genCalls[i] <= 3
    /\ (FixOver(i) /\ ~results[i].passed /\ i \notin fixedAt)
         => Cardinality(IssuesOf(i)) = 1

\* a probe whose three attempts were all used up without a fix, and its Issue
C1_Witness ==
  \E i \in 1..Len(results) :
    /\ FixOver(i)
    /\ genCalls[i] = 3
    /\ i \notin fixedAt
    /\ \E k \in IssuesOf(i) : issues[k].suggestion = "Max retries exceeded"

C3_SandboxReleased ==
  ("sandbox" \in liveCtx \/ "sandbox" \in liveBrowser)
    => (pc = "runExec" /\ Len(results) = idx - 1)

\* a probe that ran in an opened context and failed, its result returned
C3_Witness ==
  /\ "sandbox" \in opened
  /\ Len(results) >= 1
  /\ results[Len(results)].error = "syntax"
  /\ "sandbox" \notin liveCtx
  /\ "sandbox" \notin liveBrowser

KnownErrors == {"read", "launch", "syntax", "network", "assertion"}

\* C4: runTests yields one result per probe file found, in file order; a
\* probe that cannot be read, whose expectation fails or whose request fails
\* gives a result with passed = false and an error text, and the probes after
\* it are still run.
C4_OneResultPerProbe ==
  /\ \A i \in 1..Len(results) :
       /\ i <= Len(testFiles)
       /\ results[i].testFile = testFiles[i]
       /\ results[i].error \in KnownErrors => ~results[i].passed
       /\ ~results[i].passed => results[i].error # ""
  /\ pc = "runOpen" => Len(results) = idx - 1
  /\ RunOver => Len(results) = Len(testFiles)

\* an unreadable first probe followed by a second probe that was still run
C4_Witness ==
  /\ RunOver
  /\ Len(results) >= 2
  /\ results[1].error = "read"
  /\ results[2].error = "syntax"

AllFilesReadable == \A i \in 1..Len(env.project) : env.project[i].readable

\* C5: a run with a readable project root and well-formed input (on a host
\* where the project can be written and a browser launched) answers with the
\* aggregate report, also when the live endpoint is unreachable, the backend
\* unavailable or single probes and requests fail.
C5_ReportAlwaysReturned ==
  (pc = "done" /\ env.hasProjectPath /\ env.root = "ok" /\ env.host = "ok"
     /\ AllFilesReadable)
    => response = "report"

\* the stage that owns an execution context is running
OwnerRunning(o) ==
  CASE o = "sandbox" -> pc = "runExec"
    [] o = "security" -> pc \in {"secTest", "secClose"}
    [] o = "performance" -> pc \in {"perfTest", "perfClose"}
    [] OTHER -> FALSE   \* a login call has returned in every state

\* C6: at most one execution context is live at any point of a run, and none
\* stays live after the stage (or login call) that opened it has returned or
\* thrown.
C6_OneLiveContext ==
  /\ Cardinality(liveCtx) <= 1
  /\ \A o \in liveCtx \cup liveBrowser : OwnerRunning(o)

\* the attempts SecurityTester makes for all the endpoints
RECURSIVE AttemptCount(_, _)
AttemptCount(eps, i) ==
  IF i > Len(eps) THEN 0 ELSE Len(attemptsFor(eps[i])) + AttemptCount(eps, i + 1)

\* C7: the security and performance engines are executed on the routes and
\* AuthProfile of the run, with the findings and metrics the routes give,
\* whether synthesis, probe execution and remediation succeeded, degraded or
\* threw (here: on a host and network on which the engines themselves succeed).
C7_EnginesIndependent ==
  (pc = "done" /\ response # "error400"
     /\ errorStage \notin {"scan", "extract", "auth"}
     /\ env.host # "nobrowser" /\ env.net.kind = "up")
    => /\ secRan
       /\ perfRan
       /\ Len(secIssues) = AttemptCount(endpoints, 1)
       /\ Len(perfMetrics) = Len(endpoints)

\* C8: extractFromFile never throws for a file it cannot read: the run is
\* never ended by extraction, and goes on past an unreadable file.
C8_ExtractionNeverThrows ==
  (\E i \in 1..Len(routeFiles) : ~routeFiles[i].readable)
    => /\ errorStage # "extract"
       /\ pc = "done" => response = "report"

\* C9: when the project root cannot be read, scan fails and the run is
\* aborted there: no later stage is entered with an empty file set.
C9_UnreadableRootAborts ==
  (env.hasProjectPath /\ env.root # "ok" /\ pc # "start")
    => (pc = "done" /\ response = "error500" /\ errorStage = "scan")

\* C10: in both engines the failure of a single request drops that attempt
\* only: the other attempts are made and the engine returns its results.
C10_AttemptsIsolated ==
  (pc = "done" /\ env.net.kind = "one" /\ env.host = "ok"
     /\ (response = "report" \/ errorStage \in {"security", "performance"}))
    => /\ secRan
       /\ perfRan
       /\ Len(perfMetrics) = Len(endpoints)

\* the route declarations of a text: the calls with their path on the line
declarations(lines) == SelectSeq(Flatten(lines), LAMBDA t : t.kind = "decl")

RoutesOf(eps, m, p) == {i \in 1..Len(eps) : eps[i].method = m /\ eps[i].path = p}

\* C12: in document mode one route is emitted for each path of the document
\* and each of the seven verbs that is a key under it, and no other, with
\* authRequired true iff the operation has a non-empty security array; a
\* document without a paths mapping fails with a format error, no route.
C12_DocumentMode ==
  (call.fn = "discoverEndpointsFromOpenApi" /\ call.done)
    => LET doc == call.arg
           ret == call.ret
       IN IF doc.fetch \in {"object", "jsonText"} /\ doc.paths = "mapping"
            THEN /\ ~ret.threw
                 /\ \A e \in 1..Len(doc.members), v \in 1..Len(HTTP_METHODS) :
                      startsWithSlash(doc.members[e].path) =>
                        LET ops == member(doc.members[e].item, HTTP_METHODS[v])
                            rs == RoutesOf(ret.endpoints, toUpperCase(HTTP_METHODS[v]),
                                           doc.members[e].path)
                        IN /\ Cardinality(rs) = Len(ops)
                           /\ \A i \in rs :
                                ret.endpoints[i].authRequired
                                  <=> ops[1].security = "nonempty"
                 /\ \A i \in 1..Len(ret.endpoints) :
                      \E e \in 1..Len(doc.members) :
                        /\ doc.members[e].path = ret.endpoints[i].path
                        /\ startsWithSlash(doc.members[e].path)
            ELSE /\ ret.threw
                 /\ ret.endpoints = << >>
                 /\ doc.fetch \in {"object", "jsonText"} => ret.error = "Invalid OpenAPI spec"

\* a document with two paths, one operation with an empty security array and
\* one with a non-empty one: a route for each verb, auth for the second only
C12_Witness ==
  /\ call.fn = "discoverEndpointsFromOpenApi"
  /\ call.done
  /\ Len(call.arg.members) = 2
  /\ Len(call.ret.endpoints) >= 4
  /\ \E i, j \in 1..Len(call.ret.endpoints) :
       /\ call.ret.endpoints[i].method = "GET"
       /\ ~call.ret.endpoints[i].authRequired
       /\ call.ret.endpoints[j].method = "DELETE"
       /\ call.ret.endpoints[j].authRequired

\* C13: the generated body is written as the probe only if it holds both the
\* test-declaration marker and the import marker; with a marker missing, or
\* the backend call failing, the template is the probe; nothing has been
\* executed when the probe is written.
C13_SynthesisGate ==
  call.fn = "generateTestCode"
    => LET aiEnhanced == call.arg.aiEnhanced
           template == buildTestTemplate(call.arg.endpoint, authInfo)
           written == readFile(testsDir, getTestFileName(call.arg.endpoint))
       IN /\ written = call.ret
          /\ written \in {aiEnhanced, template}
          /\ written = aiEnhanced
               <=> /\ aiEnhanced.src = "ai"
                   /\ "test(" \in aiEnhanced.markers
                   /\ "@playwright/test" \in aiEnhanced.markers
          /\ results = << >>
          /\ execCount = << >>
          /\ opened = {}

\* a generated body with the import marker and no test( call: the template is
\* written
C13_Witness ==
  /\ call.fn = "generateTestCode"
  /\ call.arg.aiEnhanced = CodeDescribeOnly
  /\ readFile(testsDir, getTestFileName(call.arg.endpoint)).src = "template"

\* C14: the structural gate of remediation is the acceptance gate of
\* synthesis: a candidate written by attemptFix marks the probe fixed iff
\* mergeTestCode would take it in place of the template.
C14_SameGate ==
  [][(pc = "fixTry" /\ testsDir' # testsDir)
       => LET candidate == readFile(testsDir', results[idx].testFile)
              template == buildTestTemplate(EpItems, authInfo)
          IN idx \in fixedAt' <=> mergeTestCode(template, candidate) = candidate]_vars

\* C15: an injection attempt is classified vulnerable, with severity high,
\* iff the status is 200 or 500 and the body matches a database-error
\* fingerprint; with another status, or no fingerprint in the body, it is
\* vulnerable = false with severity low.
C15_SqlClassification ==
  (call.fn = "testSQLInjection" /\ call.done)
    => LET r == call.arg.response
           fingerprint == \E w \in r.body : w \in {"sql syntax", "sqlstate", "mysql"}
       IN /\ call.ret.vulnerable <=> (r.status \in {200, 500} /\ fingerprint)
          /\ call.ret.severity = IF call.ret.vulnerable THEN "high" ELSE "low"
          /\ call.ret.type = "sql_injection"

\* ' OR 1=1 -- answered 200 with SQL syntax in the body: vulnerable, high
C15_Witness ==
  /\ call.fn = "testSQLInjection"
  /\ call.done
  /\ call.arg.att.payload = "' OR 1=1 --"
  /\ call.arg.response.status = 200
  /\ "sql syntax" \in call.arg.response.body
  /\ call.ret.vulnerable
  /\ call.ret.severity = "high"

\* the attempts of a type SecurityTester made for the endpoint i
AttemptsOf(i, type) == {k \in 1..Len(secLog[i]) : secLog[i][k].type = type}

Oversized(i) ==
  {k \in AttemptsOf(i, "large_payload") : secLog[i][k].chars = 100000}

DetectOver ==
  /\ pc \notin {"start", "extract", "auth", "idle"}
  /\ ~(pc = "done" /\ (response = "error400" \/ errorStage \in {"scan", "extract", "auth"}))

\* the files of the scan that declare a login route
LoginFiles == {i \in 1..Len(routeFiles) : analyzeFile(routeFiles[i]).loginRoute # << >>}

\* C20: the scan of the candidate files stops at the first file with a login
\* route and not at a file that matches another category only: when some file
\* declares a login route, the profile has the login path and method of the
\* first such file.
C20_StopsAtLoginRoute ==
  (DetectOver /\ LoginFiles # {})
    => LET first == analyzeFile(routeFiles[Min(LoginFiles)])
       IN /\ authInfo.hasAuth
          /\ authInfo.loginRoute = first.loginRoute
          /\ authInfo.loginMethod = first.loginMethod

\* C17: PerformanceTester takes the routes in the order of the list; for each
\* it issues exactly 20 requests, all of them before a response is awaited,
\* and no request of the next route is issued while a request of the current
\* one is in flight.
C17_BurstPerRouteInOrder ==
  /\ pc = "perfWait" => (inflight.route = idx /\ inflight.issued = 20)
  /\ pc = "perfTest" => (inflight.ok = 0 /\ inflight.bad = 0)
  /\ pc \in {"perfTest", "perfWait"}
       => /\ Len(perfMetrics) = idx - 1
          /\ reqNo = 20 * (idx - 1) + (IF pc = "perfWait" THEN 20 ELSE 0)
  /\ reqNo \in {20 * Len(perfMetrics), 20 * (Len(perfMetrics) + 1)}
  /\ Len(perfMetrics) <= Len(endpoints)
  /\ \A i \in 1..Len(perfMetrics) :
       /\ perfMetrics[i].endpoint = endpoints[i].path
       /\ perfMetrics[i].method = endpoints[i].method

\* the batch of the second route in flight, some of it answered, after the
\* 20 requests of the first route
C17_Witness ==
  /\ pc = "perfWait"
  /\ idx = 2
  /\ reqNo = 40
  /\ inflight.ok < 20
  /\ inflight.ok > 0
  /\ Len(perfMetrics) = 1

\* C18: the speed class of a route follows from its average latency alone:
\* fast below 200, moderate from 200 and below 500, slow from 500 and below
\* 1000, very_slow from 1000; latencies of 100 give p95 = p99 = average = 100
\* and fast.
C18_SpeedClass ==
  \A i \in 1..Len(perfMetrics) :
    LET m == perfMetrics[i] IN
    /\ m.status = "fast" <=> m.averageLatency < 200
    /\ m.status = "moderate" <=> (200 <= m.averageLatency /\ m.averageLatency < 500)
    /\ m.status = "slow" <=> (500 <= m.averageLatency /\ m.averageLatency < 1000)
    /\ m.status = "very_slow" <=> m.averageLatency >= 1000
    /\ m.minLatency = 100 /\ m.maxLatency = 100
         => /\ m.p95Latency = 100
            /\ m.p99Latency = 100
            /\ m.averageLatency = 100
            /\ m.status = "fast"

\* a route answered with latencies of 100, and one with an average of 200
C18_Witness ==
  \E i, j \in 1..Len(perfMetrics) :
    /\ perfMetrics[i].averageLatency = 100
    /\ perfMetrics[i].p95Latency = 100
    /\ perfMetrics[i].status = "fast"
    /\ perfMetrics[j].averageLatency = 200
    /\ perfMetrics[j].status = "moderate"

\* the login requests of PerformanceTester
PerfLogins == SelectSeq(logins, LAMBDA l : l.engine = "performance")

\* C19: when the profile has auth, PerformanceTester makes exactly one login
\* call in a run, before the first batch request, with POST, /api/login and
\* the token field 'token' for the login fields the profile lacks; when the
\* profile has no auth it makes none (on a host where a browser can be
\* launched).
C19_LoginOnceWithDefaults ==
  /\ ~authInfo.hasAuth => PerfLogins = << >>
  /\ (authInfo.hasAuth /\ env.host = "ok" /\ pc \notin {"perfAuth", "idle"}
        /\ (perfRan \/ pc \in {"perfOpen", "perfTest", "perfWait", "perfClose"}))
       => /\ Len(PerfLogins) = 1
          /\ PerfLogins[1].route
               = IF authInfo.loginRoute # << >> THEN authInfo.loginRoute ELSE PathApiLogin
          /\ PerfLogins[1].method
               = IF authInfo.loginMethod # "" THEN authInfo.loginMethod ELSE "POST"
          /\ PerfLogins[1].tokenField
               = IF authInfo.tokenField # "" THEN authInfo.tokenField ELSE "token"
  /\ (reqNo > 0 /\ PerfLogins # << >>) => pc # "perfAuth"

\* the result createIssue returned has this type and severity
IssueIs(type, severity) == call.ret.type = type /\ call.ret.severity = severity

\* C21: the Issue created for an unfixed probe takes its category and
\* severity from the error text: one containing "sql", "injection" or "xss"
\* gives security/high, one containing "500", "crash" or "exception" gives
\* error/critical, one containing "timeout", "slow" or "latency" gives
\* performance/medium, and one containing none of these gives failure/medium.
C21_SeverityFromKeywords ==
  (call.fn = "createIssue" /\ call.done) =>
    LET error == call.arg.error
        has(words) == \E w \in words : includes(error, w)
    IN /\ has({"sql", "injection", "xss"}) => IssueIs("security", "high")
       /\ has({"500", "crash", "exception"}) => IssueIs("error", "critical")
       /\ has({"timeout", "slow", "latency"}) => IssueIs("performance", "medium")
       /\ ~has({"sql", "injection", "xss", "500", "crash", "exception",
                "timeout", "slow", "latency"})
            => IssueIs("failure", "medium")

\* generateRecommendations has returned
RecommendationsMade == call.fn = "generateRecommendations" /\ call.done

\* the recommendation rec is among those returned
Recommends(rec) == \E i \in 1..Len(call.ret) : call.ret[i] = rec

\* the three rules of C22 that read the issues and the failure rate
IssueAndRateRules ==
  LET testResults == call.arg.testResults
      iss == call.arg.issues
  IN /\ Recommends("input-validation")
          <=> \E i \in 1..Len(iss) : iss[i].type = "security"
     /\ Recommends("crash-risk")
          <=> \E i \in 1..Len(iss) : iss[i].severity = "critical"
     /\ Recommends("general-review")
          <=> (testResults.total > 0
                 /\ testResults.failed * 100 > 30 * testResults.total)
     /\ \A i \in 1..Len(call.ret) :
          call.ret[i] \in {"performance", "input-validation", "crash-risk",
                           "general-review"}
     /\ \A i, j \in 1..Len(call.ret) : call.ret[i] = call.ret[j] => i = j

\* the average duration of the probes of the run is above 5000 ms
AverageAbove5000 ==
  LET rs == call.arg.testResults.results
  IN /\ Len(rs) > 0
     /\ Sum([i \in 1..Len(rs) |-> rs[i].duration]) > 5000 * Len(rs)

\* C22 as stated: the recommendations of a run are exactly those triggered:
\* performance iff the average probe duration exceeds 5000 ms,
\* input-validation iff some issue is security-typed, crash-risk iff some
\* issue is critical, general-review iff the failure rate is strictly above
\* 30%.
C22_RecommendationsByAverage ==
  RecommendationsMade =>
    /\ Recommends("performance") <=> AverageAbove5000
    /\ IssueAndRateRules

\* C22 amended: the performance recommendation is made iff at least one probe
\* of the run took more than 5000 ms, whatever the average; the other three
\* rules as stated.
C22_RecommendationsByProbe ==
  RecommendationsMade =>
    /\ Recommends("performance")
         <=> \E i \in 1..Len(call.arg.testResults.results) :
               call.arg.testResults.results[i].duration > 5000
    /\ IssueAndRateRules

\* a run with a probe above 5000 ms whose average is not above it, and a
\* security-typed issue: performance and input-validation are recommended
C22_Witness ==
  /\ RecommendationsMade
  /\ Recommends("performance")
  /\ ~AverageAbove5000
  /\ Recommends("input-validation")

\* the results with passed = false
FailedAt == {i \in 1..Len(results) : ~results[i].passed}

\* C27: after analyze every failed result is accounted for exactly once: it
\* is counted in fixedTests or it has exactly one Issue, never both and never
\* neither, so fixedTests + |issues| is the number of failed results; a
\* passed result never gets an Issue or a generation call.
C27_FailedAccountedOnce ==
  /\ \A i \in 1..Len(results) :
       results[i].passed
         => (IssuesOf(i) = {} /\ genCalls[i] = 0 /\ i \notin fixedAt)
  /\ AnalysisOver =>
       /\ \A i \in FailedAt :
            \/ i \in fixedAt /\ IssuesOf(i) = {}
            \/ i \notin fixedAt /\ Cardinality(IssuesOf(i)) = 1
       /\ Cardinality(fixedAt) + Len(issues) = Cardinality(FailedAt)

\* analyze has returned for a run with a passed probe, a probe that was fixed
\* and a probe that became an Issue
C27_Witness ==
  /\ AnalysisOver
  /\ \E i \in 1..Len(results) : results[i].passed
  /\ \E i \in FailedAt : i \in fixedAt
  /\ \E i \in FailedAt : Cardinality(IssuesOf(i)) = 1

\* the step is an iteration of the retry loop on the probe file f
FixIterationOn(f) == pc = "fixTry" /\ results[idx].testFile = f

\* C28: during remediation a probe file is changed only by an attempt whose
\* backend call returned a candidate, and such an attempt leaves the candidate
\* in the file, whether it passes the structural gate or not; an attempt
\* whose call failed leaves the file as it was; a probe with no error text or
\* an unreadable file gets no attempt; no file is added or removed.
C28_FileHoldsLastCandidate ==
  [][/\ Len(testsDir') = Len(testsDir)
     /\ \A i \in 1..Len(testsDir) :
          LET f == testsDir[i].name IN
          /\ testsDir'[i].name = f
          /\ testsDir'[i].code # testsDir[i].code
               => /\ FixIterationOn(f)
                  /\ call'.fn = "analyzeFailure"
                  /\ call'.ret \in Candidates
          /\ (FixIterationOn(f) /\ call'.ret \in Candidates)
               => testsDir'[i].code = call'.ret
          /\ (FixIterationOn(f) /\ call'.ret = BackendThrows)
               => testsDir'[i].code = testsDir[i].code
     /\ pc' = "fixTry" => results[idx'].error \notin {"", "read"}]_vars

\* analyze has returned; a probe became an Issue after three attempts, the
\* last of which threw, and its file holds a candidate that failed the gate;
\* the file of a probe with no error text still holds the template
C28_Witness ==
  /\ AnalysisOver
  /\ call.fn = "analyzeFailure"
  /\ call.ret = BackendThrows
  /\ \E i \in FailedAt :
       /\ genCalls[i] = 3
       /\ i \notin fixedAt
       /\ readFile(testsDir, results[i].testFile) \in Candidates
       /\ ~isValidTestCode(readFile(testsDir, results[i].testFile))
  /\ \E i \in FailedAt :
       /\ results[i].error = ""
       /\ readFile(testsDir, results[i].testFile) = buildTestTemplate(EpItems, NoAuth)

\* C29: the vulnerableEndpoints of a security run are exactly the routes with
\* at least one finding with vulnerable = true, of any finding type
\* (injection, script, traversal, oversized, negative, unauthorized).
C29_VulnerableEndpointsExact ==
  secRan =>
    vulnerableEndpoints =
      {<< secIssues[i].method, secIssues[i].endpoint >> :
         i \in {j \in 1..Len(secIssues) : secIssues[j].vulnerable}}

\* C30: every synthesized probe is executed exactly once per run: the route
\* entries are persisted to distinct probe files (also two entries with the
\* same method and path), the sandbox runs only probe files synthesized in
\* the run, and there are as many probe results as generated tests reported.
C30_EveryProbeRunOnce ==
  /\ \A i, j \in 1..Len(tests) : tests[i] = tests[j] => i = j
  /\ RunOver =>
       /\ Len(results) = Len(tests)
       /\ \A i \in 1..Len(results) :
            \E j \in 1..Len(tests) : results[i].testFile = tests[j]

\* C25: the sandbox reaches Passed on clean completion of the probe body: a
\* probe, in particular the template probe, whose requests are answered and
\* whose expectations all hold is recorded with passed = true and no error.
C25_CleanProbePasses ==
  (call.fn = "executeTestCode" /\ call.done
     /\ ~call.arg.netDown /\ call.arg.expectationsHold)
    => (call.ret.passed /\ call.ret.error = "")

\* C23: of two successive runs of the full pipeline on the same project
\* against an unreachable base URL, each gives one failed result per probe
\* with a network-error classification (and so the same counts and outcomes
\* in both, whatever the first run left on disk).  Stated for a run: every
\* probe that was read and executed against the unreachable endpoint has
\* failed on the network.
C23_UnreachableRunFailsOnNetwork ==
  (RunOver /\ env.net.kind = "down" /\ env.host = "ok")
    => \A i \in 1..Len(results) :
         results[i].error # "read"
           => (~results[i].passed /\ results[i].error = "network")

\* C26: minLatency and maxLatency (and the percentiles) are taken from the
\* individual latencies of the 20 requests, and slowRequests counts the
\* requests whose own latency is above 500 ms: a batch with differing
\* latencies has minLatency < maxLatency, and slowRequests is the number of
\* slow requests, any value from 0 to 20.
C26_MetricsFromOwnLatencies ==
  (call.fn = "testEndpointPerformance" /\ call.done) =>
    LET own == call.arg.own
        values == {own[i] : i \in 1..Len(own)}
    IN /\ call.ret.minLatency \in values
       /\ call.ret.maxLatency \in values
       /\ \A v \in values : call.ret.minLatency <= v /\ v <= call.ret.maxLatency
       /\ call.ret.p95Latency \in values
       /\ call.ret.p99Latency \in values
       /\ Cardinality(values) > 1 => call.ret.minLatency < call.ret.maxLatency
       /\ call.ret.slowRequests = Cardinality({i \in 1..Len(own) : own[i] > 500})

\* C24: in URL mode the temporary workspace created for a run is removed on
\* every exit path of the run, whether it ends with the report or with an
\* error in any stage; it exists only while the run is under way, and a
\* request rejected by input validation creates no workspace.
C24_WorkspaceRemoved ==
  /\ pc = "exited" => workspaceDir # "created"
  /\ response = "error400" => workspaceDir = "none"
  /\ workspaceDir = "created" => pc \notin {"urlStart", "exited"}
  /\ (pc = "exited" /\ (response = "report" \/ errorStage \in {"security", "performance"}))
       => workspaceDir = "removed"

\* a run whose performance stage threw has left, its workspace removed
C24_Witness ==
  /\ pc = "exited"
  /\ response = "error500"
  /\ errorStage = "performance"
  /\ Len(tests) > 0
  /\ testsDir = << >>
  /\ workspaceDir = "removed"

====
